---------------------------- MODULE Spec2Model ----------------------------
(***************************************************************************)
(* Job orchestrator of facefusion: Job model (orchestrator/models.py),     *)
(* JobStore (orchestrator/store.py), ResourceManager                       *)
(* (orchestrator/resources.py), Runner (orchestrator/runner.py),           *)
(* Orchestrator (orchestrator/orchestrator.py) and the HTTP job handlers   *)
(* of api_server.py.                                                       *)
(*                                                                         *)
(* Threads: the ThreadPoolExecutor workers that run _execute_job, the      *)
(* asyncio event loop that runs the `async def` job handlers one at a time *)
(* (they contain no await, so they never interleave with each other, but   *)
(* they do interleave with the workers), and the callers of submit,        *)
(* run_job and cancel_job.  Every step below holds at most one access to   *)
(* shared state (one Store transaction, one semaphore operation).          *)
(***************************************************************************)
EXTENDS Integers, Sequences, FiniteSets, TLC

(* ------------------------------ bounds --------------------------------- *)

\* Number of job ids that can be submitted.
NumJobs == 1

\* Size of the worker pool (get_cpu_worker_count() on the modelled host).
NumWorkers == 2

\* Calls of run_job in a run of the model.
MaxRunJobs == 2

\* Calls of cancel_job in a run of the model.
MaxCancels == 1

\* Requests served by the event loop's job handlers in a run of the model.
MaxRequests == 1

\* Progress is counted in steps of 1/MaxProgress: MaxProgress stands for 1.0.
MaxProgress == 2

\* Largest priority a priority request carries.
MaxPriority == 1

\* Largest value of the wall clock (datetime.utcnow()).
MaxClock == 3

\* Capacity of a subscriber's asyncio.Queue (subscribe's max_size).
MaxSize == 2

\* Number of status and progress events the recording callback keeps.
MaxSeen == 6

\* Threads that call the ResourceManager on its own.
NumThreads == 2

\* Acquire scopes a thread nests.
MaxDepth == 2

\* Calls of release_all in a run of the ResourceManager on its own.
MaxReleaseAll == 1

\* Subscribers of the EventBus on its own.
NumSubscribers == 2

\* Job ids the events of the EventBus on its own carry.
NumBusJobs == 2

\* Events published in a run of the EventBus on its own.
MaxEvents == 4

\* Queued jobs in the store when run_queued_jobs is called on its own.
NumQueued == 3

\* Times the process is killed and started again.
MaxRestarts == 1

\* Calls of JobStore.update_progress on the store on its own.
MaxStoreCalls == 2

\* Rows of the jobs table when /stop is called on its own.
NumStopJobs == 11

\* Log lines broadcast in a run of the LogBroadcaster on its own.
MaxLines == 102

\* Calls of Runner.on_progress on a Runner on its own.
MaxOnProgress == 3

(* -------------------------- program constants -------------------------- *)

\* ResourceLimits.max_gpu_jobs
max_gpu_jobs == 1

\* ResourceLimits.max_ffmpeg_processes
max_ffmpeg_processes == 2

\* Orchestrator.list_jobs: the default of its parameter `limit`.
list_jobs_limit == 10

\* LogBroadcaster.subscribe: asyncio.Queue(maxsize = 100)
log_queue_maxsize == 100

Jobs == 1 .. NumJobs

Threads == 1 .. NumThreads

Workers == 1 .. NumWorkers

Progress == 0 .. MaxProgress

\* None of Optional[datetime]
NoTime == 0

(* ------------------------------ models.py ------------------------------ *)

JobStatus == {"drafted", "queued", "running", "completed", "failed", "canceled"}

\* A transition table that also lets a canceled job be retried.
valid_transitions_CanceledRetry ==
    [s \in JobStatus |->
        CASE s = "drafted"   -> {"queued"}
          [] s = "queued"    -> {"running", "canceled"}
          [] s = "running"   -> {"completed", "failed", "canceled"}
          [] s = "completed" -> {}
          [] s = "failed"    -> {"queued"}
          [] s = "canceled"  -> {"queued"}]

\* JobStatus.valid_transitions: the table of allowed next statuses.
valid_transitions ==
    [s \in JobStatus |->
        CASE s = "drafted"   -> {"queued"}
          [] s = "queued"    -> {"running", "canceled"}
          [] s = "running"   -> {"completed", "failed", "canceled"}
          [] s = "completed" -> {}
          [] s = "failed"    -> {"queued"}
          [] s = "canceled"  -> {}]

\* JobStatus.can_transition_to
can_transition_to(status, new_status) ==
    new_status \in valid_transitions[status]

\* JobStatus.is_terminal
is_terminal(status) == status \in {"completed", "failed", "canceled"}

ErrorCode == {"None", "PATH_ERROR", "PIPELINE_FAILED", "INTERNAL_ERROR"}

\* {}: the default of Job.config.
EmptyDict == [k \in {} |-> ""]

\* The requests submit is called with: as the /run handler builds them, and
\* with settings that also hold some of the request's own fields (as the
\* scene handler of api_server.py builds them).
Requests ==
    {[source_paths |-> <<"s">>, target_path |-> "t", output_path |-> "o",
      processors |-> <<"face_swapper">>,
      settings |-> [log_level |-> "info"]],
     [source_paths |-> <<"s">>, target_path |-> "t", output_path |-> "o",
      processors |-> <<"face_swapper">>,
      settings |-> [log_level |-> "info", target_path |-> "t",
                    output_path |-> "o"]]}

\* The request of the /run handler.
RunRequest ==
    [source_paths |-> <<"s">>, target_path |-> "t", output_path |-> "o",
     processors |-> <<"face_swapper">>, settings |-> [log_level |-> "info"]]

\* The four fields of RunRequest.to_config ahead of the settings.
BaseConfig(request) ==
    [source_paths |-> request.source_paths,
     target_path |-> request.target_path,
     output_path |-> request.output_path,
     processors |-> request.processors]

\* RunRequest.to_config: the four fields, then config.update(settings).
to_config(request) ==
    [k \in DOMAIN BaseConfig(request) \cup DOMAIN request.settings |->
        IF k \in DOMAIN request.settings THEN request.settings[k]
        ELSE BaseConfig(request)[k]]

\* A Job as the orchestrator uses it; status "none" is Python's None (no job).
\* config is what json.loads gives back for the config_json column.
\* priority and traceback are the entries of Job.metadata.
NoJob ==
    [status |-> "none", progress |-> 0, cancel_requested |-> FALSE,
     started_at |-> NoTime, completed_at |-> NoTime,
     error_code |-> "None", error_message |-> "None", priority |-> 0,
     traceback |-> FALSE, config |-> EmptyDict]

\* Job(job_id, status = DRAFTED, ...): the dataclass defaults.
NewJob ==
    [status |-> "drafted", progress |-> 0, cancel_requested |-> FALSE,
     started_at |-> NoTime, completed_at |-> NoTime,
     error_code |-> "None", error_message |-> "None", priority |-> 0,
     traceback |-> FALSE, config |-> EmptyDict]

Exists(job) == job.status # "none"

\* Job.transition_to: the success flag and the job after the call.
transition_to(job, new_status, t) ==
    IF can_transition_to(job.status, new_status)
    THEN [ok  |-> TRUE,
          job |-> IF new_status = "running"
                  THEN [job EXCEPT !.status = new_status, !.started_at = t]
                  ELSE IF is_terminal(new_status)
                  THEN [job EXCEPT !.status = new_status, !.completed_at = t]
                  ELSE [job EXCEPT !.status = new_status]]
    ELSE [ok |-> FALSE, job |-> job]

\* Job.update_progress: max(self.progress, min(1.0, progress)), where `one`
\* stands for 1.0.
max_min(progress, p, one) ==
    LET clamped == IF p > one THEN one ELSE p
    IN  IF clamped > progress THEN clamped ELSE progress

\* Job.update_progress
job_update_progress(job, p) ==
    [job EXCEPT !.progress = max_min(job.progress, p, MaxProgress)]

\* Job.fail: the error fields are set before the transition is tried.
fail(job, code, message, t) ==
    transition_to([job EXCEPT !.error_code = code, !.error_message = message],
                  "failed", t).job


(* ------------------------------- state --------------------------------- *)

VARIABLES
    store,            \* JobStore: the jobs table, job_id -> row (NoJob: no row)
    created,          \* job ids already generated by submit
    now,              \* datetime.utcnow()
    queue,            \* ThreadPoolExecutor: tasks submitted, not yet started
    wpc,              \* worker -> position in _execute_job / Runner.run
    wjob,             \* worker -> job_id of its task
    wsnap,            \* worker -> its in-memory Job (job, runner.job, final_job)
    wpipe,            \* worker -> what the pipeline call did ("none" before)
    wret,             \* worker -> `success`, what runner.run() returned
    gpu_semaphore,    \* ResourceManager._gpu_semaphore._value
    job_resources,    \* ResourceManager._job_resources: job_id -> (is a key, its set)
    active_runners,   \* Orchestrator._active_runners (its keys)
    hop,              \* event loop: the job handler in flight ("idle": none)
    hjob,             \* event loop: the job_id the handler works on
    hsnap,            \* event loop: the handler's in-memory Job
    pub,              \* events published on the EventBus by the last step
    callbacks,        \* state_manager: the callback items that are not None
    sync_callbacks,   \* EventBus._sync_callbacks: a recording callback is added
    seen,             \* the events the recording callback was called with
    sub_job,          \* subscribe(job_id): the job_id of the subscription
    sub_pc,           \* subscribe(job_id): "none", "waiting" or "ended"
    sub_queue,        \* subscribe(job_id): its asyncio.Queue
    sub_event,        \* subscribe(job_id): the event it yielded last
    cancel_log,       \* history: when cancel_job was called for each job
    calls,            \* history: the calls made so far, by kind
    mjob,             \* models.py under test: the Job
    mold,             \* models.py under test: the Job before the call
    mnew,             \* models.py under test: the argument new_status
    mres,             \* models.py under test: the returned value
    ffmpeg_semaphore, \* ResourceManager._ffmpeg_semaphore._value
    scopes,           \* resources.py under test: thread -> its open acquire scopes
    release_calls,    \* resources.py under test: calls of release_all so far
    subscribers,      \* events.py under test: subscriber -> its subscription
    published,        \* events.py under test: the events published, in order
    rq_rows,          \* run_queued_jobs under test: the queued rows of the store
    restarts,         \* history: how often the process was killed and started
    executor,         \* Orchestrator._executor: "open", "shutdown" or "joined"
    inflight,         \* history: the jobs workers executed when shutdown was called
    st_job,           \* store.py under test: the job_id of the last call
    st_arg,           \* store.py under test: the progress of the last call
    st_res,           \* store.py under test: the value the last call returned
    st_old,           \* store.py under test: the jobs table before the last call
    st_calls,         \* store.py under test: the calls made so far
    requests,         \* history: job_id -> the request submit was called with
    sp_rows,          \* /stop under test: the jobs table, job_id -> row
    sp_count,         \* /stop under test: the count the last call returned
    sp_calls,         \* /stop under test: the calls made so far
    lb_loop,          \* LogBroadcaster.loop is set
    lb_pc,            \* /logs websocket: "none", "subscribed" or "closed"
    lb_queue,         \* /logs websocket: its asyncio.Queue, in LogBroadcaster.subscribers
    lb_lines,         \* history: the number of lines broadcast so far
    mfail,            \* models.py under test: the arguments of Job.fail
    rn_progress,      \* Runner under test: runner.job.progress
    rn_store,         \* Runner under test: the progress column of the job's row
    rn_pub,           \* Runner under test: the progress values published, in order
    rn_call,          \* Runner under test: the last call of on_progress
    rn_calls          \* Runner under test: the calls made so far

orchVars ==
    <<store, created, queue, wpc, wjob, wsnap, wpipe, wret, gpu_semaphore,
      job_resources, active_runners, hop, hjob, hsnap, pub, cancel_log,
      calls, callbacks, sync_callbacks, seen, sub_job, sub_pc, sub_queue,
      sub_event>>

\* The EventBus state that no publisher touches.
busVars == <<sync_callbacks, sub_job, sub_pc, sub_event>>

modelVars == <<mjob, mold, mnew, mres>>

\* The variables of the harnesses that call one component on its own.
resVars == <<ffmpeg_semaphore, scopes, release_calls>>

evVars == <<subscribers, published>>

rqVars == <<rq_rows>>

\* The life of the process: its restarts and the shutdown of its executor.
lifeVars == <<restarts, executor, inflight>>

stVars == <<st_job, st_arg, st_res, st_old, st_calls>>

reqVars == <<requests>>

stopVars == <<sp_rows, sp_count, sp_calls>>

\* The harnesses of the HTTP handlers and of the classes around the jobs.
lbVars == <<lb_loop, lb_pc, lb_queue, lb_lines>>

failVars == <<mfail>>

rnVars == <<rn_progress, rn_store, rn_pub, rn_call, rn_calls>>

moreVars == <<stopVars, lbVars, failVars, rnVars>>

harnessVars ==
    <<resVars, evVars, rqVars, lifeVars, stVars, reqVars, moreVars>>

vars == <<orchVars, now, modelVars, harnessVars>>

(* ------------------------------- store.py ------------------------------ *)

\* JobStore.get_job: the row as a Job, or None.
get_job(st, job_id) == st[job_id]

\* JobStore.update_job: UPDATE jobs SET <every column> WHERE job_id = ?
\* (no row matches an unknown job_id, so nothing changes).
update_job(st, job_id, job) ==
    IF Exists(st[job_id]) THEN [st EXCEPT ![job_id] = job] ELSE st

\* JobStore.delete_job
delete_job(st, job_id) == [st EXCEPT ![job_id] = NoJob]

\* JobStore.set_cancel_requested: UPDATE jobs SET cancel_requested = 1
set_cancel_requested(st, job_id) ==
    IF Exists(st[job_id])
    THEN [st EXCEPT ![job_id].cancel_requested = TRUE]
    ELSE st

\* JobStore.is_cancel_requested: bool(row and row['cancel_requested'])
is_cancel_requested(st, job_id) ==
    Exists(st[job_id]) /\ st[job_id].cancel_requested

\* A WHERE clause that also matches a row of equal progress.
update_progress_where_NotStrict(st, job_id, p) ==
    Exists(st[job_id]) /\ st[job_id].progress <= p

\* JobStore.update_progress: the rows its UPDATE matches,
\* WHERE job_id = ? AND progress < ?
update_progress_where(st, job_id, p) ==
    Exists(st[job_id]) /\ st[job_id].progress < p

\* JobStore.update_progress: UPDATE jobs SET progress = ?
\*                           WHERE job_id = ? AND progress < ?
update_progress(st, job_id, p) ==
    IF update_progress_where(st, job_id, p)
    THEN [st EXCEPT ![job_id].progress = p]
    ELSE st

\* JobStore.update_progress: the value returned, cursor.rowcount > 0.
update_progress_returns(st, job_id, p) ==
    update_progress_where(st, job_id, p)

(* ------------------------------ events.py ------------------------------ *)

\* create_status_event: event_type_map.get(status, EventType.JOB_STARTED)
create_status_event(job_id, status) ==
    [job_id |-> job_id,
     event_type |-> CASE status = "queued"    -> "job_queued"
                      [] status = "running"   -> "job_started"
                      [] status = "completed" -> "job_completed"
                      [] status = "failed"    -> "job_failed"
                      [] status = "canceled"  -> "job_canceled"
                      [] OTHER                -> "job_started",
     status |-> status, message |-> "", level |-> "", progress |-> 0]

\* create_progress_event
create_progress_event(job_id, p) ==
    [job_id |-> job_id, event_type |-> "job_progress",
     status |-> "", message |-> "", level |-> "", progress |-> p]

\* create_log_event
create_log_event(job_id, level, message) ==
    [job_id |-> job_id, event_type |-> "log",
     status |-> "", message |-> message, level |-> level, progress |-> 0]

\* The event types that end a per-job subscription (subscribe, lines 129-133).
TerminalEvents == {"job_completed", "job_failed", "job_canceled"}

\* No event yielded yet.
NoEvent ==
    [job_id |-> 0, event_type |-> "none",
     status |-> "", message |-> "", level |-> "", progress |-> 0]

\* The recording callback: it keeps the first MaxSeen status and progress
\* events it is called with, and skips the log events.
record(log, events) ==
    LET notLog(e) == e.event_type # "log"
        all == log \o SelectSeq(events, notLog)
    IN  IF Len(all) > MaxSeen THEN SubSeq(all, 1, MaxSeen) ELSE all

\* EventBus.publish, lines 79-93, for the events of one step: each event of
\* the subscribed job is put on the subscriber's queue, and dropped when the
\* queue is full.
RECURSIVE put_nowait(_, _)
put_nowait(q, events) ==
    IF events = <<>> THEN q
    ELSE put_nowait(IF /\ Head(events).job_id = sub_job
                       /\ Len(q) < MaxSize
                    THEN Append(q, Head(events))
                    ELSE q,
                    Tail(events))

\* EventBus.publish for the events of one step, in order: the sync callbacks
\* are called first, then the events go to the queues registered for the job.
publish(events) ==
    /\ pub' = events
    /\ seen' = IF sync_callbacks THEN record(seen, events) ELSE seen
    /\ sub_queue' = IF sub_pc = "waiting" THEN put_nowait(sub_queue, events)
                    ELSE sub_queue

\* The subscribers of the EventBus on its own.
Subscribers == 1 .. NumSubscribers

\* The job ids of the events they see; 0 is the None of subscribe(None).
BusJobs == 1 .. NumBusJobs

\* The events published to them: a progress event and a terminal event of
\* each job.
BusEvents ==
    {create_progress_event(j, 1) : j \in BusJobs}
      \cup {create_status_event(j, "failed") : j \in BusJobs}

\* A subscriber that has not called subscribe.  An event is named by its
\* position in `published` (the queues hold the JobEvent object itself);
\* since, got and full are history: the number of events published before
\* the subscription, the events yielded so far, and the events published
\* while max_size events were pending.
NoSubscription ==
    [pc |-> "none", job_id |-> 0, queue |-> <<>>, since |-> 0,
     got |-> <<>>, full |-> {}]

(* ------------------------- initial state ------------------------------- *)

\* A job_id that is no key of ResourceManager._job_resources.
NoResources == [present |-> FALSE, held |-> {}]

\* The models.py harness at rest (it moves only under SpecModels).
ModelsIdle ==
    /\ mjob = NoJob
    /\ mold = NoJob
    /\ mnew = "none"
    /\ mres = "none"

\* ResourceManager(): both semaphores at their maximum, no thread in a scope.
ResourcesIdle ==
    /\ ffmpeg_semaphore = max_ffmpeg_processes
    /\ scopes = [t \in Threads |-> <<>>]
    /\ release_calls = 0

\* EventBus(): no subscriber, nothing published.
EventsIdle ==
    /\ subscribers = [x \in Subscribers |-> NoSubscription]
    /\ published = <<>>

\* A process that was never killed, with its executor accepting tasks.
LifeIdle ==
    /\ restarts = 0
    /\ executor = "open"
    /\ inflight = {}

\* No call of the store on its own yet.
StoreIdle ==
    /\ st_job = 0
    /\ st_arg = 0
    /\ st_res = "none"
    /\ st_old = <<>>
    /\ st_calls = 0

\* No call of /stop yet, on no table.
StopIdle ==
    /\ sp_rows = <<>>
    /\ sp_count = 0
    /\ sp_calls = 0

\* LogBroadcaster(): no loop, no subscriber.
LogIdle ==
    /\ lb_loop = FALSE
    /\ lb_pc = "none"
    /\ lb_queue = <<>>
    /\ lb_lines = 0

\* No call of Job.fail yet.
NoFail == [code |-> "None", message |-> "None"]

\* No call of on_progress yet.
NoCall == [progress |-> 0, phase |-> "", throttled |-> FALSE]

\* A Runner whose job has progress 0 and that was never called.
RunnerIdle ==
    /\ rn_progress = 0
    /\ rn_store = 0
    /\ rn_pub = <<>>
    /\ rn_call = NoCall
    /\ rn_calls = 0

MoreIdle ==
    /\ StopIdle
    /\ LogIdle
    /\ mfail = NoFail
    /\ RunnerIdle

\* The harnesses at rest (each moves only under its own specification).
HarnessIdle ==
    /\ ResourcesIdle
    /\ EventsIdle
    /\ rq_rows = <<>>
    /\ LifeIdle
    /\ StoreIdle
    /\ requests = [j \in Jobs |-> <<>>]
    /\ MoreIdle

\* get_orchestrator(): a fresh store, bus, ResourceManager and worker pool.
OrchInit ==
    /\ store = [j \in Jobs |-> NoJob]
    /\ created = {}
    /\ queue = <<>>
    /\ wpc = [w \in Workers |-> "idle"]
    /\ wjob = [w \in Workers |-> 0]
    /\ wsnap = [w \in Workers |-> NoJob]
    /\ wpipe = [w \in Workers |-> "none"]
    /\ wret = [w \in Workers |-> "none"]
    /\ gpu_semaphore = max_gpu_jobs
    /\ job_resources = [j \in Jobs |-> NoResources]
    /\ active_runners = {}
    /\ hop = "idle"
    /\ hjob = 0
    /\ hsnap = NoJob
    /\ pub = <<>>
    /\ cancel_log = [j \in Jobs |-> {}]
    /\ calls = [run_job |-> 0, cancel_job |-> 0, request |-> 0]
    /\ callbacks = {}
    /\ seen = <<>>
    /\ sub_job = 0
    /\ sub_pc = "none"
    /\ sub_queue = <<>>
    /\ sub_event = NoEvent

Init ==
    /\ OrchInit
    /\ sync_callbacks = FALSE
    /\ now = 1
    /\ ModelsIdle
    /\ HarnessIdle

(* --------------------------- orchestrator.py --------------------------- *)

\* Whether some worker is executing a task of job_id.
Picked(job_id) == \E w \in Workers : wpc[w] # "idle" /\ wjob[w] = job_id

\* Whether a task of job_id waits in the thread pool's queue.
Submitted(job_id) == \E i \in 1 .. Len(queue) : queue[i] = job_id

\* The positions between the worker's write of `running` and the pipeline's
\* return.
BeforeReturn == {"acquire", "validate", "step", "pipeline"}

\* A submit that leaves the job as create_job wrote it (the queue_job call
\* of line 73 left out).
submit_NoQueue(job_id, request) ==
    /\ job_id \notin created
    /\ \A other \in Jobs : other < job_id => other \in created
    /\ store' = [store EXCEPT ![job_id] =
                   [NewJob EXCEPT !.config = to_config(request)]]
    /\ publish(<<create_status_event(job_id, "drafted")>>)
    /\ created' = created \cup {job_id}
    /\ requests' = [requests EXCEPT ![job_id] = <<request>>]
    /\ UNCHANGED <<queue, wpc, wjob, wsnap, wpipe, wret, gpu_semaphore,
                   job_resources, active_runners, hop, hjob, hsnap,
                   cancel_log, calls, now, modelVars, resVars, evVars,
                   rqVars, lifeVars, stVars, moreVars, busVars, callbacks>>

\* Orchestrator.submit(request): create_job(drafted) with the request's
\* config, publish, then queue_job.  Job ids are opaque (generate_job_id),
\* so they are handed out in increasing order.
submit(job_id, request) ==
    /\ job_id \notin created
    /\ \A other \in Jobs : other < job_id => other \in created
    /\ LET job == [NewJob EXCEPT !.config = to_config(request)]
           queued == transition_to(job, "queued", now)
       IN  /\ store' = [store EXCEPT ![job_id] = queued.job]
           /\ publish(<<create_status_event(job_id, "drafted"),
                         create_status_event(job_id, "queued")>>)
    /\ created' = created \cup {job_id}
    /\ requests' = [requests EXCEPT ![job_id] = <<request>>]
    /\ UNCHANGED <<queue, wpc, wjob, wsnap, wpipe, wret, gpu_semaphore,
                   job_resources, active_runners, hop, hjob, hsnap,
                   cancel_log, calls, now, modelVars, resVars, evVars,
                   rqVars, lifeVars, stVars, moreVars, busVars, callbacks>>

\* Orchestrator.submit with the request of the /run handler.
Submit(job_id) == submit(job_id, RunRequest)

\* Orchestrator.cancel_job: set_cancel_requested and publish; the history
\* variable records where the job was when the call was made: queued with no
\* task handed to the pool yet, between the worker's write of `running` and
\* the pipeline's return, or elsewhere.
CancelJob(job_id) ==
    /\ Exists(get_job(store, job_id))
    /\ calls.cancel_job < MaxCancels
    /\ calls' = [calls EXCEPT !.cancel_job = @ + 1]
    /\ store' = set_cancel_requested(store, job_id)
    /\ publish(<<create_status_event(job_id, "cancel_requested")>>)
    /\ cancel_log' =
         [cancel_log EXCEPT ![job_id] = @ \cup
            (IF /\ store[job_id].status = "queued"
                /\ ~Picked(job_id)
                /\ ~Submitted(job_id)
             THEN {"queued"}
             ELSE IF \E w \in Workers :
                        wjob[w] = job_id /\ wpc[w] \in BeforeReturn
             THEN {"running"}
             ELSE {"other"})]
    /\ UNCHANGED <<created, queue, wpc, wjob, wsnap, wpipe, wret,
                   gpu_semaphore, job_resources, active_runners, hop, hjob,
                   hsnap, now, modelVars, harnessVars,
                   busVars, callbacks>>

\* Orchestrator.run_job: a queued job's task goes to the thread pool; an
\* executor that was shut down raises RuntimeError in submit and takes no
\* task.
RunJob(job_id) ==
    /\ Exists(get_job(store, job_id))
    /\ calls.run_job < MaxRunJobs
    /\ calls' = [calls EXCEPT !.run_job = @ + 1]
    /\ store[job_id].status = "queued"
    /\ queue' = IF executor = "open" THEN Append(queue, job_id) ELSE queue
    /\ publish(<<>>)
    /\ UNCHANGED <<store, created, wpc, wjob, wsnap, wpipe, wret,
                   gpu_semaphore, job_resources, active_runners, hop, hjob,
                   hsnap, cancel_log, now, modelVars, harnessVars,
                   busVars, callbacks>>

\* What a worker leaves behind when _execute_job returns.
WorkerReturns(w) ==
    /\ wpc' = [wpc EXCEPT ![w] = "idle"]
    /\ wjob' = [wjob EXCEPT ![w] = 0]
    /\ wsnap' = [wsnap EXCEPT ![w] = NoJob]
    /\ wpipe' = [wpipe EXCEPT ![w] = "none"]
    /\ wret' = [wret EXCEPT ![w] = "none"]

\* _execute_job, line 143: a free worker takes the next task and reads the
\* job.  The pool's threads are interchangeable: the free worker of lowest
\* index takes the task.
ExecuteJob_get(w) ==
    /\ wpc[w] = "idle"
    /\ \A other \in Workers : other < w => wpc[other] # "idle"
    /\ queue # <<>>
    /\ queue' = Tail(queue)
    /\ LET job == get_job(store, Head(queue))
       IN  IF Exists(job)
           THEN /\ wpc' = [wpc EXCEPT ![w] = "check"]
                /\ wjob' = [wjob EXCEPT ![w] = Head(queue)]
                /\ wsnap' = [wsnap EXCEPT ![w] = job]
           ELSE UNCHANGED <<wpc, wjob, wsnap>>
    /\ publish(<<>>)
    /\ UNCHANGED <<store, created, wpipe, wret, gpu_semaphore, job_resources,
                   active_runners, hop, hjob, hsnap, cancel_log, calls, now,
                   modelVars, harnessVars,
                   busVars, callbacks>>

\* _execute_job, line 148: the pickup check of the cancel flag.
ExecuteJob_check(w) ==
    /\ wpc[w] = "check"
    /\ wpc' = [wpc EXCEPT ![w] =
                 IF is_cancel_requested(store, wjob[w]) THEN "cancel"
                 ELSE "start"]
    /\ publish(<<>>)
    /\ UNCHANGED <<store, created, queue, wjob, wsnap, wpipe, wret,
                   gpu_semaphore, job_resources, active_runners, hop, hjob,
                   hsnap, cancel_log, calls, now, modelVars, harnessVars,
                   busVars, callbacks>>

\* _execute_job, lines 149-152: the pickup cancel branch.
ExecuteJob_cancel(w) ==
    /\ wpc[w] = "cancel"
    /\ LET job == transition_to(wsnap[w], "canceled", now).job
       IN  store' = update_job(store, wjob[w], job)
    /\ publish(<<create_status_event(wjob[w], "canceled")>>)
    /\ WorkerReturns(w)
    /\ UNCHANGED <<created, queue, gpu_semaphore, job_resources,
                   active_runners, hop, hjob, hsnap, cancel_log, calls, now,
                   modelVars, harnessVars,
                   busVars, callbacks>>

\* _execute_job, lines 155-166: move the job to running, persist, publish,
\* create the Runner and register it.
ExecuteJob_start(w) ==
    /\ wpc[w] = "start"
    /\ LET r == transition_to(wsnap[w], "running", now)
       IN  IF r.ok
           THEN /\ store' = update_job(store, wjob[w], r.job)
                /\ publish(<<create_status_event(wjob[w], "running")>>)
                /\ wsnap' = [wsnap EXCEPT ![w] = r.job]
                /\ wpc' = [wpc EXCEPT ![w] = "acquire"]
                /\ active_runners' = active_runners \cup {wjob[w]}
                /\ UNCHANGED <<wjob, wpipe, wret>>
           ELSE /\ WorkerReturns(w)
                /\ publish(<<>>)
                /\ UNCHANGED <<store, active_runners>>
    /\ UNCHANGED <<created, queue, gpu_semaphore, job_resources, hop, hjob,
                   hsnap, cancel_log, calls, now, modelVars, harnessVars,
                   busVars, callbacks>>

(* ----------------------------- resources.py ---------------------------- *)

\* An acquire_gpu that goes on when the semaphore's acquire returned False
\* (the `if not acquired: raise` left out).
AcquireGpu_NoRaise(w) ==
    /\ wpc[w] = "acquire"
    /\ gpu_semaphore' = IF gpu_semaphore > 0 THEN gpu_semaphore - 1 ELSE 0
    /\ job_resources' =
         [job_resources EXCEPT ![wjob[w]] =
            [present |-> TRUE, held |-> @.held \cup {"gpu"}]]
    /\ wpc' = [wpc EXCEPT ![w] = "validate"]
    /\ publish(<<>>)
    /\ UNCHANGED <<store, created, queue, wjob, wsnap, wpipe, wret,
                   active_runners, hop, hjob, hsnap, cancel_log, calls, now,
                   modelVars, harnessVars,
                   busVars, callbacks>>

\* ResourceManager.acquire_gpu, lines 58-66: the semaphore is taken and the
\* job-to-resource edge recorded; the worker enters runner.run().
AcquireGpu(w) ==
    /\ wpc[w] = "acquire"
    /\ gpu_semaphore > 0
    /\ gpu_semaphore' = gpu_semaphore - 1
    /\ job_resources' =
         [job_resources EXCEPT ![wjob[w]] =
            [present |-> TRUE, held |-> @.held \cup {"gpu"}]]
    /\ wpc' = [wpc EXCEPT ![w] = "validate"]
    /\ publish(<<>>)
    /\ UNCHANGED <<store, created, queue, wjob, wsnap, wpipe, wret,
                   active_runners, hop, hjob, hsnap, cancel_log, calls, now,
                   modelVars, harnessVars,
                   busVars, callbacks>>

\* ResourceManager.acquire_gpu, lines 60-61: no slot within the timeout, so
\* TimeoutError; orchestrator.py lines 180-183 catch it and fail the
\* in-memory job.
AcquireGpuTimeout(w) ==
    /\ wpc[w] = "acquire"
    /\ gpu_semaphore = 0
    /\ wsnap' = [wsnap EXCEPT ![w] =
                   fail(@, "INTERNAL_ERROR",
                        "Timeout waiting for GPU resource", now)]
    /\ wpipe' = [wpipe EXCEPT ![w] = "timeout"]
    /\ wpc' = [wpc EXCEPT ![w] = "finally"]
    /\ publish(<<>>)
    /\ UNCHANGED <<store, created, queue, wjob, wret, gpu_semaphore,
                   job_resources, active_runners, hop, hjob, hsnap,
                   cancel_log, calls, now, modelVars, harnessVars,
                   busVars, callbacks>>

\* ResourceManager.acquire_gpu, lines 70-74 (scope exit), then
\* orchestrator.py lines 173-175 on the in-memory job.
ReleaseGpu(w) ==
    /\ wpc[w] = "release"
    /\ job_resources' =
         [job_resources EXCEPT ![wjob[w]] =
            IF @.present THEN [@ EXCEPT !.held = @ \ {"gpu"}] ELSE @]
    /\ gpu_semaphore' = gpu_semaphore + 1
    /\ wsnap' = [wsnap EXCEPT ![w] =
                   IF wret[w] = "true"
                   THEN [transition_to(@, "completed", now).job
                            EXCEPT !.progress = MaxProgress]
                   ELSE @]
    /\ wpc' = [wpc EXCEPT ![w] = "finally"]
    /\ publish(<<>>)
    /\ UNCHANGED <<store, created, queue, wjob, wpipe, wret, active_runners,
                   hop, hjob, hsnap, cancel_log, calls, now, modelVars, harnessVars,
                   busVars, callbacks>>

(* ------------------------------ runner.py ------------------------------ *)

\* The items Runner.run sets on state_manager (lines 117-118).
RunnerCallbacks == {"current_job_progress_callback", "is_canceled_callback"}

\* Runner.run, lines 93-118: the start is logged and the paths validated;
\* a refused path fails the job and run returns through its finally block
\* (lines 168-172); otherwise the callbacks are set on state_manager.
Runner_validate(w) ==
    /\ wpc[w] = "validate"
    /\ \/ /\ wpc' = [wpc EXCEPT ![w] = "step"]
          /\ callbacks' = RunnerCallbacks
          /\ UNCHANGED <<store, wsnap, wret>>
       \/ /\ LET job == fail(wsnap[w], "PATH_ERROR", "path", now)
             IN  /\ wsnap' = [wsnap EXCEPT ![w] = job]
                 /\ store' = update_job(store, wjob[w], job)
          /\ wret' = [wret EXCEPT ![w] = "false"]
          /\ wpc' = [wpc EXCEPT ![w] = "release"]
          /\ callbacks' = {}
    /\ publish(<<create_log_event(wjob[w], "info", "Starting job")>>)
    /\ UNCHANGED <<created, queue, wjob, wpipe, gpu_semaphore, job_resources,
                   active_runners, hop, hjob, hsnap, cancel_log, calls, now,
                   modelVars, harnessVars,
                   busVars>>

\* Runner.run, lines 128-136: the step is marked running, the whole job is
\* written to the store and the pipeline is invoked.
Runner_step(w) ==
    /\ wpc[w] = "step"
    /\ store' = update_job(store, wjob[w], wsnap[w])
    /\ wpc' = [wpc EXCEPT ![w] = "pipeline"]
    /\ publish(<<>>)
    /\ UNCHANGED <<created, queue, wjob, wsnap, wpipe, wret, gpu_semaphore,
                   job_resources, active_runners, hop, hjob, hsnap,
                   cancel_log, calls, now, modelVars, harnessVars,
                   busVars, callbacks>>

\* Runner.on_progress, lines 75-77, called by the pipeline with a value
\* whose weighted global progress is g.
OnProgress(w, g) ==
    /\ wpc[w] = "pipeline"
    /\ LET job == job_update_progress(wsnap[w], g)
       IN  /\ wsnap' = [wsnap EXCEPT ![w] = job]
           /\ store' = update_progress(store, wjob[w], job.progress)
           /\ publish(<<create_progress_event(wjob[w], job.progress)>>)
    /\ UNCHANGED <<created, queue, wpc, wjob, wpipe, wret, gpu_semaphore,
                   job_resources, active_runners, hop, hjob, hsnap,
                   cancel_log, calls, now, modelVars, harnessVars,
                   busVars, callbacks>>

\* Runner.run, lines 136-150: the pipeline returns `success` and the Runner
\* reads the cancel flag (is_canceled); on success run returns True through
\* its finally block (lines 168-172).
PipelineReturns(w, success) ==
    /\ wpc[w] = "pipeline"
    /\ wpipe' = [wpipe EXCEPT ![w] = IF success THEN "true" ELSE "false"]
    /\ IF is_cancel_requested(store, wjob[w])
       THEN /\ wpc' = [wpc EXCEPT ![w] = "r_cancel"]
            /\ publish(<<>>)
            /\ UNCHANGED <<wret, callbacks>>
       ELSE IF success
       THEN /\ wpc' = [wpc EXCEPT ![w] = "release"]
            /\ wret' = [wret EXCEPT ![w] = "true"]
            /\ publish(<<create_log_event(wjob[w], "info",
                                          "Job completed successfully")>>)
            /\ callbacks' = {}
       ELSE /\ wpc' = [wpc EXCEPT ![w] = "r_fail"]
            /\ publish(<<>>)
            /\ UNCHANGED <<wret, callbacks>>
    /\ UNCHANGED <<store, created, queue, wjob, wsnap, gpu_semaphore,
                   job_resources, active_runners, hop, hjob, hsnap,
                   cancel_log, calls, now, modelVars, harnessVars,
                   busVars>>

\* Runner.run, lines 138-142: the cancel seen after the pipeline; run returns
\* False through its finally block.
Runner_cancel(w) ==
    /\ wpc[w] = "r_cancel"
    /\ LET job == transition_to(wsnap[w], "canceled", now).job
       IN  /\ wsnap' = [wsnap EXCEPT ![w] = job]
           /\ store' = update_job(store, wjob[w], job)
    /\ wret' = [wret EXCEPT ![w] = "false"]
    /\ wpc' = [wpc EXCEPT ![w] = "release"]
    /\ callbacks' = {}
    /\ publish(<<create_log_event(wjob[w], "info", "Job canceled by user")>>)
    /\ UNCHANGED <<created, queue, wjob, wpipe, gpu_semaphore, job_resources,
                   active_runners, hop, hjob, hsnap, cancel_log, calls, now,
                   modelVars, harnessVars,
                   busVars>>

\* Runner.run, lines 151-157: the pipeline returned false.
Runner_fail(w) ==
    /\ wpc[w] = "r_fail"
    /\ LET job == fail(wsnap[w], "PIPELINE_FAILED",
                       "Pipeline processing failed", now)
       IN  /\ wsnap' = [wsnap EXCEPT ![w] = job]
           /\ store' = update_job(store, wjob[w], job)
    /\ wret' = [wret EXCEPT ![w] = "false"]
    /\ wpc' = [wpc EXCEPT ![w] = "release"]
    /\ callbacks' = {}
    /\ publish(<<create_log_event(wjob[w], "error", "Processing failed")>>)
    /\ UNCHANGED <<created, queue, wjob, wpipe, gpu_semaphore, job_resources,
                   active_runners, hop, hjob, hsnap, cancel_log, calls, now,
                   modelVars, harnessVars,
                   busVars>>

\* A Runner whose except block fails the job in memory only (the
\* update_job of line 166 left out).
PipelineRaises_NoPersist(w) ==
    /\ wpc[w] \in {"step", "pipeline"}
    /\ wsnap' = [wsnap EXCEPT ![w] =
                   [fail(@, "INTERNAL_ERROR", "Unexpected error", now)
                      EXCEPT !.traceback = TRUE]]
    /\ wpipe' = [wpipe EXCEPT ![w] = "raised"]
    /\ wret' = [wret EXCEPT ![w] = "false"]
    /\ wpc' = [wpc EXCEPT ![w] = "release"]
    /\ callbacks' = {}
    /\ publish(<<create_log_event(wjob[w], "error", "Unexpected error")>>)
    /\ UNCHANGED <<store, created, queue, wjob, gpu_semaphore, job_resources,
                   active_runners, hop, hjob, hsnap, cancel_log, calls, now,
                   modelVars, harnessVars, busVars>>

\* Runner.run, lines 159-172: the pipeline, or a step on the way to it
\* (lines 109-131), raised: the job is failed, the traceback goes to its
\* metadata, the job is written, and run returns False through its finally
\* block.
PipelineRaises(w) ==
    /\ wpc[w] \in {"step", "pipeline"}
    /\ LET job == [fail(wsnap[w], "INTERNAL_ERROR", "Unexpected error", now)
                     EXCEPT !.traceback = TRUE]
       IN  /\ wsnap' = [wsnap EXCEPT ![w] = job]
           /\ store' = update_job(store, wjob[w], job)
    /\ wpipe' = [wpipe EXCEPT ![w] = "raised"]
    /\ wret' = [wret EXCEPT ![w] = "false"]
    /\ wpc' = [wpc EXCEPT ![w] = "release"]
    /\ callbacks' = {}
    /\ publish(<<create_log_event(wjob[w], "error", "Unexpected error")>>)
    /\ UNCHANGED <<created, queue, wjob, gpu_semaphore, job_resources,
                   active_runners, hop, hjob, hsnap, cancel_log, calls, now,
                   modelVars, harnessVars,
                   busVars>>

(* ---------------- orchestrator.py: the finally block ------------------- *)

\* _execute_job, lines 185-190: the runner entry is removed and the job is
\* read again; a deleted row gives None, and the attribute access on it ends
\* the worker without an event.
ExecuteJob_finally(w) ==
    /\ wpc[w] = "finally"
    /\ active_runners' = active_runners \ {wjob[w]}
    /\ LET final_job == get_job(store, wjob[w])
       IN  IF Exists(final_job)
           THEN /\ wsnap' = [wsnap EXCEPT ![w] = final_job]
                /\ wpc' = [wpc EXCEPT ![w] = "sync"]
                /\ UNCHANGED <<wjob, wpipe, wret>>
           ELSE WorkerReturns(w)
    /\ publish(<<>>)
    /\ UNCHANGED <<store, created, queue, gpu_semaphore, job_resources,
                   hop, hjob, hsnap, cancel_log, calls, now, modelVars, harnessVars,
                   busVars, callbacks>>

\* _execute_job, lines 191-196: a job still running is failed and written;
\* the status event of final_job is published.
ExecuteJob_sync(w) ==
    /\ wpc[w] = "sync"
    /\ LET final_job ==
             IF wsnap[w].status = "running"
             THEN fail(wsnap[w], "PIPELINE_FAILED",
                       "Pipeline exited without setting final status", now)
             ELSE wsnap[w]
       IN  /\ store' = IF wsnap[w].status = "running"
                       THEN update_job(store, wjob[w], final_job)
                       ELSE store
           /\ publish(<<create_status_event(wjob[w], final_job.status)>>)
    /\ WorkerReturns(w)
    /\ UNCHANGED <<created, queue, gpu_semaphore, job_resources,
                   active_runners, hop, hjob, hsnap, cancel_log, calls, now,
                   modelVars, harnessVars,
                   busVars, callbacks>>

(* ------------------- api_server.py: the job handlers ------------------- *)

\* set_job_priority, lines 1850-1853: the job is read and its priority set
\* in memory.
SetJobPriority_get(job_id, priority) ==
    /\ hop = "idle"
    /\ calls.request < MaxRequests
    /\ calls' = [calls EXCEPT !.request = @ + 1]
    /\ Exists(get_job(store, job_id))
    /\ hop' = "priority"
    /\ hjob' = job_id
    /\ hsnap' = [get_job(store, job_id) EXCEPT !.priority = priority]
    /\ publish(<<>>)
    /\ UNCHANGED <<store, created, queue, wpc, wjob, wsnap, wpipe, wret,
                   gpu_semaphore, job_resources, active_runners, cancel_log,
                   now, modelVars, harnessVars,
                   busVars, callbacks>>

\* set_job_priority, line 1854: the whole job is written back.
SetJobPriority_update ==
    /\ hop = "priority"
    /\ store' = update_job(store, hjob, hsnap)
    /\ hop' = "idle"
    /\ hjob' = 0
    /\ hsnap' = NoJob
    /\ publish(<<>>)
    /\ UNCHANGED <<created, queue, wpc, wjob, wsnap, wpipe, wret,
                   gpu_semaphore, job_resources, active_runners, cancel_log, calls,
                   now, modelVars, harnessVars,
                   busVars, callbacks>>

\* unqueue_jobs, lines 1812-1815: a queued job is read and reset to drafted
\* in memory.
UnqueueJobs_get(job_id) ==
    /\ hop = "idle"
    /\ calls.request < MaxRequests
    /\ calls' = [calls EXCEPT !.request = @ + 1]
    /\ Exists(get_job(store, job_id))
    /\ store[job_id].status = "queued"
    /\ hop' = "unqueue"
    /\ hjob' = job_id
    /\ hsnap' = [get_job(store, job_id) EXCEPT !.status = "drafted"]
    /\ publish(<<>>)
    /\ UNCHANGED <<store, created, queue, wpc, wjob, wsnap, wpipe, wret,
                   gpu_semaphore, job_resources, active_runners, cancel_log,
                   now, modelVars, harnessVars,
                   busVars, callbacks>>

\* unqueue_jobs, lines 1816-1818: the job is written back and announced.
UnqueueJobs_update ==
    /\ hop = "unqueue"
    /\ store' = update_job(store, hjob, hsnap)
    /\ publish(<<create_status_event(hjob, "drafted")>>)
    /\ hop' = "idle"
    /\ hjob' = 0
    /\ hsnap' = NoJob
    /\ UNCHANGED <<created, queue, wpc, wjob, wsnap, wpipe, wret,
                   gpu_semaphore, job_resources, active_runners, cancel_log, calls,
                   now, modelVars, harnessVars,
                   busVars, callbacks>>

\* submit_jobs -> Orchestrator.queue_job, lines 79-83: the job is read and
\* moved to queued in memory, when the transition is valid.
QueueJob_get(job_id) ==
    /\ hop = "idle"
    /\ calls.request < MaxRequests
    /\ calls' = [calls EXCEPT !.request = @ + 1]
    /\ Exists(get_job(store, job_id))
    /\ transition_to(get_job(store, job_id), "queued", now).ok
    /\ hop' = "queue"
    /\ hjob' = job_id
    /\ hsnap' = transition_to(get_job(store, job_id), "queued", now).job
    /\ publish(<<>>)
    /\ UNCHANGED <<store, created, queue, wpc, wjob, wsnap, wpipe, wret,
                   gpu_semaphore, job_resources, active_runners, cancel_log,
                   now, modelVars, harnessVars,
                   busVars, callbacks>>

\* Orchestrator.queue_job, lines 84-86: the job is written back and announced.
QueueJob_update ==
    /\ hop = "queue"
    /\ store' = update_job(store, hjob, hsnap)
    /\ publish(<<create_status_event(hjob, "queued")>>)
    /\ hop' = "idle"
    /\ hjob' = 0
    /\ hsnap' = NoJob
    /\ UNCHANGED <<created, queue, wpc, wjob, wsnap, wpipe, wret,
                   gpu_semaphore, job_resources, active_runners, cancel_log, calls,
                   now, modelVars, harnessVars,
                   busVars, callbacks>>

\* delete_jobs, line 1836: the row is deleted, whatever its status.
DeleteJobs(job_id) ==
    /\ hop = "idle"
    /\ calls.request < MaxRequests
    /\ calls' = [calls EXCEPT !.request = @ + 1]
    /\ Exists(get_job(store, job_id))
    /\ store' = delete_job(store, job_id)
    /\ publish(<<>>)
    /\ UNCHANGED <<created, queue, wpc, wjob, wsnap, wpipe, wret,
                   gpu_semaphore, job_resources, active_runners, hop, hjob,
                   hsnap, cancel_log, now, modelVars, harnessVars,
                   busVars, callbacks>>

(* --------------------------- specification ----------------------------- *)

Worker(w) ==
    \/ ExecuteJob_get(w)
    \/ ExecuteJob_check(w)
    \/ ExecuteJob_cancel(w)
    \/ ExecuteJob_start(w)
    \/ AcquireGpu(w)
    \/ AcquireGpuTimeout(w)
    \/ Runner_validate(w)
    \/ Runner_step(w)
    \/ \E g \in Progress : OnProgress(w, g)
    \/ \E success \in BOOLEAN : PipelineReturns(w, success)
    \/ PipelineRaises(w)
    \/ Runner_cancel(w)
    \/ Runner_fail(w)
    \/ ReleaseGpu(w)
    \/ ExecuteJob_finally(w)
    \/ ExecuteJob_sync(w)

\* The steps of a worker whose job nobody cancels.
WorkerRun(w) ==
    \/ ExecuteJob_get(w)
    \/ ExecuteJob_check(w)
    \/ ExecuteJob_start(w)
    \/ AcquireGpu(w)
    \/ AcquireGpuTimeout(w)
    \/ Runner_validate(w)
    \/ Runner_step(w)
    \/ \E g \in Progress : OnProgress(w, g)
    \/ \E success \in BOOLEAN : PipelineReturns(w, success)
    \/ PipelineRaises(w)
    \/ Runner_fail(w)
    \/ ReleaseGpu(w)
    \/ ExecuteJob_finally(w)
    \/ ExecuteJob_sync(w)

Client ==
    \/ \E j \in Jobs : Submit(j)
    \/ \E j \in Jobs : RunJob(j)
    \/ \E j \in Jobs : CancelJob(j)

Handler ==
    \/ \E j \in Jobs, p \in 0 .. MaxPriority : SetJobPriority_get(j, p)
    \/ SetJobPriority_update
    \/ \E j \in Jobs : UnqueueJobs_get(j)
    \/ UnqueueJobs_update
    \/ \E j \in Jobs : QueueJob_get(j)
    \/ QueueJob_update
    \/ \E j \in Jobs : DeleteJobs(j)

Next ==
    \/ \E w \in Workers : Worker(w)
    \/ Client
    \/ Handler

Spec == Init /\ [][Next]_vars

(* ------------------- submit with any request --------------------------- *)

\* The orchestrator and its workers, with callers of submit, run_job and
\* cancel_job and no HTTP handler.
NextSubmit ==
    \/ \E w \in Workers : Worker(w)
    \/ \E j \in Jobs, request \in Requests : submit(j, request)
    \/ \E j \in Jobs : RunJob(j)
    \/ \E j \in Jobs : CancelJob(j)

SpecSubmit == Init /\ [][NextSubmit]_vars

(* ------------------- a worker pool that is scheduled ------------------- *)

\* The worker pool is scheduled fairly: a worker that can take a step takes
\* it (a free thread takes a task that waits, a thread that runs goes on).
\* The callers of submit, run_job and cancel_job are free to call or not.
SpecFair ==
    /\ Init
    /\ [][NextSubmit]_vars
    /\ \A w \in Workers : WF_vars(Worker(w))

(* ------------- workers under cancel, priority and delete --------------- *)

\* The orchestrator and its workers, with callers of submit, run_job and
\* cancel_job and the handlers that set a priority and delete a job (no
\* handler that queues or unqueues a job).
NextRun ==
    \/ \E w \in Workers : Worker(w)
    \/ Client
    \/ \E j \in Jobs, p \in 0 .. MaxPriority : SetJobPriority_get(j, p)
    \/ SetJobPriority_update
    \/ \E j \in Jobs : DeleteJobs(j)

SpecRun == Init /\ [][NextRun]_vars

(* ------------------- events.py: a per-job subscriber ------------------- *)

\* Everything but the subscriber's own state and the last step's events.
notBus ==
    <<store, created, queue, wpc, wjob, wsnap, wpipe, wret, gpu_semaphore,
      job_resources, active_runners, hop, hjob, hsnap, cancel_log, calls,
      callbacks, sync_callbacks, seen, now, modelVars, harnessVars>>

\* EventBus.subscribe(job_id), lines 113-119: a queue is created and
\* registered for the job (stream_job_events, api_server.py line 703).
Subscribe(job_id) ==
    /\ sub_pc = "none"
    /\ sub_job' = job_id
    /\ sub_pc' = "waiting"
    /\ sub_queue' = <<>>
    /\ pub' = <<>>
    /\ UNCHANGED <<sub_event, notBus>>

\* A subscriber that goes on after a terminal event (the `break` of line 135
\* left out).
Yield_NoBreak ==
    /\ sub_pc = "waiting"
    /\ sub_queue # <<>>
    /\ sub_event' = Head(sub_queue)
    /\ sub_queue' = Tail(sub_queue)
    /\ pub' = <<>>
    /\ UNCHANGED <<sub_job, sub_pc, notBus>>

\* EventBus.subscribe, lines 125-143: the next event is taken from the
\* queue and yielded; after a terminal event of the subscribed job the loop
\* ends and the finally block removes the queue from the bus.
Yield ==
    /\ sub_pc = "waiting"
    /\ sub_queue # <<>>
    /\ LET event == Head(sub_queue)
       IN  /\ sub_event' = event
           /\ sub_pc' = IF /\ event.event_type \in TerminalEvents
                           /\ sub_job # 0
                           /\ event.job_id = sub_job
                        THEN "ended"
                        ELSE "waiting"
    /\ sub_queue' = Tail(sub_queue)
    /\ pub' = <<>>
    /\ UNCHANGED <<sub_job, notBus>>

\* The orchestrator, with nobody cancelling, and one client that streams a
\* job's events.
NextSubscribe ==
    \/ \E w \in Workers : WorkerRun(w)
    \/ \E j \in Jobs : Submit(j)
    \/ \E j \in Jobs : RunJob(j)
    \/ \E j \in Jobs : Subscribe(j)
    \/ Yield

SpecSubscribe == Init /\ [][NextSubscribe]_vars

(* ---------------- events.py: a recording sync callback ----------------- *)

\* EventBus.add_callback was called with the recording callback before the
\* first job is submitted.
InitLog ==
    /\ OrchInit
    /\ sync_callbacks = TRUE
    /\ now = 1
    /\ ModelsIdle
    /\ HarnessIdle

NextLog ==
    \/ \E w \in Workers : Worker(w)
    \/ Client

SpecLog == InitLog /\ [][NextLog]_vars

(* ------------------------ the clock advances --------------------------- *)

\* datetime.utcnow() moves on.
Tick ==
    /\ now < MaxClock
    /\ now' = now + 1
    /\ publish(<<>>)
    /\ UNCHANGED <<store, created, queue, wpc, wjob, wsnap, wpipe, wret,
                   gpu_semaphore, job_resources, active_runners, hop, hjob,
                   hsnap, cancel_log, calls, callbacks, busVars, modelVars, harnessVars>>

\* The orchestrator with retries (submit_jobs on a failed job), with nobody
\* cancelling, under a clock that advances.
NextClock ==
    \/ Tick
    \/ \E w \in Workers : WorkerRun(w)
    \/ \E j \in Jobs : Submit(j)
    \/ \E j \in Jobs : RunJob(j)
    \/ \E j \in Jobs : QueueJob_get(j)
    \/ QueueJob_update

SpecClock == Init /\ [][NextClock]_vars

(* ---------------------- events.py on its own --------------------------- *)

\* What the EventBus on its own leaves alone.
notEvents ==
    <<orchVars, now, modelVars, resVars, rqVars, lifeVars, stVars, reqVars,
      moreVars>>

\* EventBus.publish, lines 77-80: the queues an event goes to are those of
\* the global subscribers and of the subscribers of the event's job.
InScope(subscription, event) ==
    /\ subscription.pc = "waiting"
    /\ \/ subscription.job_id = 0
       \/ subscription.job_id = event.job_id

\* A queue that makes room by dropping its oldest event.
queue_put_nowait_DropOldest(q, e) ==
    IF Len(q) < MaxSize THEN Append(q, e) ELSE Append(Tail(q), e)

\* asyncio.Queue.put_nowait inside publish's try block (lines 83-93):
\* QueueFull is swallowed, the queue stays as it is.
queue_put_nowait(q, e) ==
    IF Len(q) < MaxSize THEN Append(q, e) ELSE q

\* EventBus.subscribe, lines 113-121: the queue is created and registered
\* under the job_id, or as a global subscriber when job_id is None.
BusSubscribe(x, job_id) ==
    /\ subscribers[x].pc = "none"
    /\ subscribers' =
         [subscribers EXCEPT ![x] =
            [pc |-> "waiting", job_id |-> job_id, queue |-> <<>>,
             since |-> Len(published), got |-> <<>>, full |-> {}]]
    /\ UNCHANGED <<published, notEvents>>

\* EventBus.publish(event), under the bus lock.
BusPublish(event) ==
    /\ Len(published) < MaxEvents
    /\ published' = Append(published, event)
    /\ LET n == Len(published) + 1
       IN  subscribers' =
             [x \in Subscribers |->
                IF InScope(subscribers[x], event)
                THEN [subscribers[x] EXCEPT
                        !.queue = queue_put_nowait(@, n),
                        !.full = IF Len(subscribers[x].queue) >= MaxSize
                                 THEN @ \cup {n} ELSE @]
                ELSE subscribers[x]]
    /\ UNCHANGED notEvents

\* A subscriber that takes the newest event of its queue.
BusYield_Newest(x) ==
    /\ subscribers[x].pc = "waiting"
    /\ subscribers[x].queue # <<>>
    /\ LET q == subscribers[x].queue
           n == q[Len(q)]
           event == published[n]
           ends == /\ event.event_type \in TerminalEvents
                   /\ subscribers[x].job_id # 0
                   /\ event.job_id = subscribers[x].job_id
       IN  subscribers' =
             [subscribers EXCEPT ![x] =
                [@ EXCEPT !.got = Append(@, n),
                          !.pc = IF ends THEN "ended" ELSE "waiting",
                          !.queue = IF ends THEN <<>>
                                    ELSE SubSeq(q, 1, Len(q) - 1)]]
    /\ UNCHANGED <<published, notEvents>>

\* EventBus.subscribe, lines 123-143: queue.get() returns the oldest event,
\* which is yielded; a terminal event of the subscribed job ends the loop
\* and the finally block takes the queue off the bus.
BusYield(x) ==
    /\ subscribers[x].pc = "waiting"
    /\ subscribers[x].queue # <<>>
    /\ LET n == Head(subscribers[x].queue)
           event == published[n]
           ends == /\ event.event_type \in TerminalEvents
                   /\ subscribers[x].job_id # 0
                   /\ event.job_id = subscribers[x].job_id
       IN  subscribers' =
             [subscribers EXCEPT ![x] =
                [@ EXCEPT !.got = Append(@, n),
                          !.pc = IF ends THEN "ended" ELSE "waiting",
                          !.queue = IF ends THEN <<>> ELSE Tail(@)]]
    /\ UNCHANGED <<published, notEvents>>

NextEvents ==
    \/ \E x \in Subscribers, j \in {0} \cup BusJobs : BusSubscribe(x, j)
    \/ \E event \in BusEvents : BusPublish(event)
    \/ \E x \in Subscribers : BusYield(x)

SpecEvents == Init /\ [][NextEvents]_vars

(* ------------- events.py: a consumer that keeps reading ---------------- *)

\* stream_job_events: one client streams the events of a job through
\* subscribe(job_id) while events are published.
NextStream ==
    \/ \E j \in BusJobs : BusSubscribe(1, j)
    \/ \E event \in BusEvents : BusPublish(event)
    \/ BusYield(1)

\* The consumer keeps reading: whenever its queue holds an event,
\* queue.get() returns and the event is yielded.  Nothing obliges anybody to
\* publish.
SpecStream == Init /\ [][NextStream]_vars /\ WF_vars(BusYield(1))

(* ----------------------- store.py on its own --------------------------- *)

\* The rows a jobs table can hold: any status, progress, cancel flag and
\* priority.
Rows ==
    {[NewJob EXCEPT !.status = s, !.progress = p, !.cancel_requested = c,
                    !.priority = q] :
        s \in JobStatus, p \in Progress, c \in BOOLEAN,
        q \in 0 .. MaxPriority}

\* A jobs table in which each job_id has any row or none.
StoreInit ==
    /\ store \in [Jobs -> Rows \cup {NoJob}]
    /\ created = {}
    /\ queue = <<>>
    /\ wpc = [w \in Workers |-> "idle"]
    /\ wjob = [w \in Workers |-> 0]
    /\ wsnap = [w \in Workers |-> NoJob]
    /\ wpipe = [w \in Workers |-> "none"]
    /\ wret = [w \in Workers |-> "none"]
    /\ gpu_semaphore = max_gpu_jobs
    /\ job_resources = [j \in Jobs |-> NoResources]
    /\ active_runners = {}
    /\ hop = "idle"
    /\ hjob = 0
    /\ hsnap = NoJob
    /\ pub = <<>>
    /\ cancel_log = [j \in Jobs |-> {}]
    /\ calls = [run_job |-> 0, cancel_job |-> 0, request |-> 0]
    /\ callbacks = {}
    /\ seen = <<>>
    /\ sub_job = 0
    /\ sub_pc = "none"
    /\ sub_queue = <<>>
    /\ sub_event = NoEvent
    /\ sync_callbacks = FALSE
    /\ now = 1
    /\ ModelsIdle
    /\ ResourcesIdle
    /\ EventsIdle
    /\ rq_rows = <<>>
    /\ LifeIdle
    /\ StoreIdle
    /\ requests = [j \in Jobs |-> <<>>]
    /\ MoreIdle

\* One call of JobStore.update_progress(job_id, progress).
CallUpdateProgress(job_id, p) ==
    /\ st_calls < MaxStoreCalls
    /\ st_calls' = st_calls + 1
    /\ st_job' = job_id
    /\ st_arg' = p
    /\ st_old' = store
    /\ store' = update_progress(store, job_id, p)
    /\ st_res' = IF update_progress_returns(store, job_id, p)
                 THEN "true" ELSE "false"
    /\ UNCHANGED <<created, queue, wpc, wjob, wsnap, wpipe, wret,
                   gpu_semaphore, job_resources, active_runners, hop, hjob,
                   hsnap, pub, cancel_log, calls, callbacks, sync_callbacks,
                   seen, sub_job, sub_pc, sub_queue, sub_event, now,
                   modelVars, resVars, evVars, rqVars, lifeVars, reqVars,
                   moreVars>>

NextStore == \E j \in Jobs, p \in Progress : CallUpdateProgress(j, p)

SpecStore == StoreInit /\ [][NextStore]_vars

(* ------------------- the process is killed and started ----------------- *)

\* The process stops at any point and is started again: get_orchestrator()
\* builds a JobStore on the same database file (JobStore.__init__ creates or
\* migrates the schema and touches no row), a new EventBus, ResourceManager
\* and Orchestrator.  Everything in memory is gone; the rows stay.
Restart ==
    /\ restarts < MaxRestarts
    /\ restarts' = restarts + 1
    /\ queue' = <<>>
    /\ wpc' = [w \in Workers |-> "idle"]
    /\ wjob' = [w \in Workers |-> 0]
    /\ wsnap' = [w \in Workers |-> NoJob]
    /\ wpipe' = [w \in Workers |-> "none"]
    /\ wret' = [w \in Workers |-> "none"]
    /\ gpu_semaphore' = max_gpu_jobs
    /\ job_resources' = [j \in Jobs |-> NoResources]
    /\ active_runners' = {}
    /\ hop' = "idle"
    /\ hjob' = 0
    /\ hsnap' = NoJob
    /\ pub' = <<>>
    /\ callbacks' = {}
    /\ seen' = <<>>
    /\ sub_job' = 0
    /\ sub_pc' = "none"
    /\ sub_queue' = <<>>
    /\ sub_event' = NoEvent
    /\ executor' = "open"
    /\ inflight' = {}
    /\ UNCHANGED <<store, created, cancel_log, calls, sync_callbacks, now,
                   modelVars, resVars, evVars, rqVars, stVars, reqVars,
                   moreVars>>

NextRestart ==
    \/ \E w \in Workers : WorkerRun(w)
    \/ \E j \in Jobs : Submit(j)
    \/ \E j \in Jobs : RunJob(j)
    \/ Restart

SpecRestart == Init /\ [][NextRestart]_vars

(* ----------------------- Orchestrator.shutdown ------------------------- *)

\* What shutdown leaves alone.
notLife ==
    <<orchVars, now, modelVars, resVars, evVars, rqVars, restarts, stVars,
      reqVars, moreVars>>

\* The positions of a worker that has moved its job to running and has not
\* returned from _execute_job yet.
Executing ==
    {"acquire", "validate", "step", "pipeline", "r_cancel", "r_fail",
     "release", "finally", "sync"}

\* Orchestrator.shutdown, line 200: _executor.shutdown(wait = True) is
\* called; the executor takes no new task, the tasks it already has are
\* still run (cancel_futures is False).
Shutdown_call ==
    /\ executor = "open"
    /\ executor' = "shutdown"
    /\ inflight' = {wjob[w] : w \in {v \in Workers : wpc[v] \in Executing}}
    /\ UNCHANGED notLife

\* Orchestrator.shutdown, lines 200-201: every worker thread has ended, so
\* _executor.shutdown returns, the store is closed and shutdown returns.
Shutdown_return ==
    /\ executor = "shutdown"
    /\ queue = <<>>
    /\ \A w \in Workers : wpc[w] = "idle"
    /\ executor' = "joined"
    /\ UNCHANGED <<inflight, notLife>>

NextShutdown ==
    \/ \E w \in Workers : WorkerRun(w)
    \/ \E j \in Jobs : Submit(j)
    \/ \E j \in Jobs : RunJob(j)
    \/ \E j \in Jobs, p \in 0 .. MaxPriority : SetJobPriority_get(j, p)
    \/ SetJobPriority_update
    \/ \E j \in Jobs : UnqueueJobs_get(j)
    \/ UnqueueJobs_update
    \/ Shutdown_call
    \/ Shutdown_return

SpecShutdown == Init /\ [][NextShutdown]_vars

(* ------------------ api_server.py: run_queued_jobs --------------------- *)

\* The metadata a queued job can carry: as submit writes it (no priority),
\* or with the priority set_job_priority wrote.
Metadata ==
    {[client |-> "orchestrator"]}
      \cup {[client |-> "orchestrator", priority |-> n] :
               n \in 0 .. MaxPriority}

\* j.metadata.get('priority', 0)
metadata_get_priority(metadata) ==
    IF "priority" \in DOMAIN metadata THEN metadata.priority ELSE 0

\* NumQueued queued jobs with any metadata and creation times.
RunQueuedInit ==
    /\ OrchInit
    /\ sync_callbacks = FALSE
    /\ now = 1
    /\ ModelsIdle
    /\ ResourcesIdle
    /\ EventsIdle
    /\ rq_rows \in [1 .. NumQueued ->
                      [created_at : 1 .. MaxClock, metadata : Metadata]]
    /\ LifeIdle
    /\ StoreIdle
    /\ requests = [j \in Jobs |-> <<>>]
    /\ MoreIdle

\* JobStore.list_jobs(QUEUED): ORDER BY created_at DESC; rows of equal
\* created_at come in any order.
list_jobs ==
    {l \in [1 .. NumQueued -> 1 .. NumQueued] :
        /\ \A i, k \in 1 .. NumQueued : i # k => l[i] # l[k]
        /\ \A i, k \in 1 .. NumQueued :
              i < k => rq_rows[l[i]].created_at >= rq_rows[l[k]].created_at}

\* The sort key of run_queued_jobs, line 1873, compared as Python compares
\* tuples.
KeyLess(a, b) ==
    LET pa == metadata_get_priority(rq_rows[a].metadata)
        pb == metadata_get_priority(rq_rows[b].metadata)
    IN  \/ pa < pb
        \/ pa = pb /\ rq_rows[a].created_at < rq_rows[b].created_at

\* sorted(..., reverse = True): descending by key, and stable (elements of
\* equal key keep the order they had).
RECURSIVE Insert(_, _)
Insert(sorted, e) ==
    IF sorted = <<>> THEN <<e>>
    ELSE IF KeyLess(Head(sorted), e) THEN <<e>> \o sorted
    ELSE <<Head(sorted)>> \o Insert(Tail(sorted), e)

RECURSIVE sorted_reverse(_)
sorted_reverse(l) ==
    IF l = <<>> THEN <<>>
    ELSE Insert(sorted_reverse(SubSeq(l, 1, Len(l) - 1)), l[Len(l)])

\* run_queued_jobs: the queued jobs are listed, sorted, and handed to the
\* worker pool by run_job in that order.
RunQueuedJobs ==
    /\ queue = <<>>
    /\ \E listed \in list_jobs : queue' = sorted_reverse(listed)
    /\ UNCHANGED <<store, created, wpc, wjob, wsnap, wpipe, wret,
                   gpu_semaphore, job_resources, active_runners, hop, hjob,
                   hsnap, pub, cancel_log, calls, callbacks, sync_callbacks,
                   seen, sub_job, sub_pc, sub_queue, sub_event, now,
                   modelVars, harnessVars>>

NextRunQueued == RunQueuedJobs

SpecRunQueued == RunQueuedInit /\ [][NextRunQueued]_vars

(* -------------------- resources.py on its own -------------------------- *)

\* What the scopes and release_all leave alone.
notResources ==
    <<store, created, queue, wpc, wjob, wsnap, wpipe, wret, active_runners,
      hop, hjob, hsnap, pub, cancel_log, calls, callbacks, sync_callbacks,
      seen, sub_job, sub_pc, sub_queue, sub_event, now, modelVars, evVars,
      rqVars, lifeVars, stVars, reqVars, moreVars>>

\* ResourceManager.acquire_gpu, lines 57-69: a thread enters the scope.
EnterGpu(t, job_id) ==
    /\ Len(scopes[t]) < MaxDepth
    /\ gpu_semaphore > 0
    /\ gpu_semaphore' = gpu_semaphore - 1
    /\ job_resources' =
         [job_resources EXCEPT ![job_id] =
            [present |-> TRUE, held |-> @.held \cup {"gpu"}]]
    /\ scopes' = [scopes EXCEPT ![t] =
                    Append(@, [job_id |-> job_id, resource |-> "gpu"])]
    /\ UNCHANGED <<ffmpeg_semaphore, release_calls, notResources>>

\* ResourceManager.acquire_ffmpeg, lines 85-96: a thread enters the scope.
EnterFfmpeg(t, job_id) ==
    /\ Len(scopes[t]) < MaxDepth
    /\ ffmpeg_semaphore > 0
    /\ ffmpeg_semaphore' = ffmpeg_semaphore - 1
    /\ job_resources' =
         [job_resources EXCEPT ![job_id] =
            [present |-> TRUE, held |-> @.held \cup {"ffmpeg"}]]
    /\ scopes' = [scopes EXCEPT ![t] =
                    Append(@, [job_id |-> job_id, resource |-> "ffmpeg"])]
    /\ UNCHANGED <<gpu_semaphore, release_calls, notResources>>

\* The finally blocks of acquire_gpu (lines 70-74) and acquire_ffmpeg (lines
\* 97-101): the thread leaves its innermost scope, by return or by exception.
ExitScope(t) ==
    /\ scopes[t] # <<>>
    /\ LET scope == scopes[t][Len(scopes[t])]
       IN  /\ job_resources' =
                [job_resources EXCEPT ![scope.job_id] =
                   IF @.present
                   THEN [@ EXCEPT !.held = @ \ {scope.resource}]
                   ELSE @]
           /\ gpu_semaphore' = IF scope.resource = "gpu"
                               THEN gpu_semaphore + 1 ELSE gpu_semaphore
           /\ ffmpeg_semaphore' = IF scope.resource = "ffmpeg"
                                  THEN ffmpeg_semaphore + 1
                                  ELSE ffmpeg_semaphore
    /\ scopes' = [scopes EXCEPT ![t] = SubSeq(@, 1, Len(@) - 1)]
    /\ UNCHANGED <<release_calls, notResources>>

\* ResourceManager.release_all: the job's entry is popped and each resource
\* named in it is released.
ReleaseAll(job_id) ==
    /\ release_calls < MaxReleaseAll
    /\ release_calls' = release_calls + 1
    /\ LET resources == IF job_resources[job_id].present
                        THEN job_resources[job_id].held ELSE {}
       IN  /\ gpu_semaphore' = IF "gpu" \in resources
                               THEN gpu_semaphore + 1 ELSE gpu_semaphore
           /\ ffmpeg_semaphore' = IF "ffmpeg" \in resources
                                  THEN ffmpeg_semaphore + 1
                                  ELSE ffmpeg_semaphore
    /\ job_resources' = [job_resources EXCEPT ![job_id] = NoResources]
    /\ UNCHANGED <<scopes, notResources>>

\* ResourceManager.get_status
get_status ==
    [gpu |-> [max |-> max_gpu_jobs, available |-> gpu_semaphore],
     ffmpeg |-> [max |-> max_ffmpeg_processes,
                 available |-> ffmpeg_semaphore],
     active_jobs |-> {j \in Jobs : job_resources[j].present}]

NextResources ==
    \/ \E t \in Threads, j \in Jobs : EnterGpu(t, j)
    \/ \E t \in Threads, j \in Jobs : EnterFfmpeg(t, j)
    \/ \E t \in Threads : ExitScope(t)
    \/ \E j \in Jobs : ReleaseAll(j)

SpecResources == Init /\ [][NextResources]_vars

(* ------------------- api_server.py: stop_processing -------------------- *)

StopJobs == 1 .. NumStopJobs

\* What /stop on its own leaves alone.
notStop ==
    <<orchVars, now, modelVars, resVars, evVars, rqVars, lifeVars, stVars,
      reqVars, lbVars, failVars, rnVars>>

\* A jobs table of NumStopJobs rows, each running, queued or failed, none
\* with a cancel request; the row of job j was created at time j.
StopInit ==
    /\ OrchInit
    /\ sync_callbacks = FALSE
    /\ now = 1
    /\ ModelsIdle
    /\ ResourcesIdle
    /\ EventsIdle
    /\ rq_rows = <<>>
    /\ LifeIdle
    /\ StoreIdle
    /\ requests = [j \in Jobs |-> <<>>]
    /\ sp_rows \in [StopJobs ->
                      [status : {"running", "queued", "failed"},
                       cancel_requested : {FALSE}]]
    /\ sp_count = 0
    /\ sp_calls = 0
    /\ LogIdle
    /\ mfail = NoFail
    /\ RunnerIdle

\* Orchestrator.list_jobs(status) -> JobStore.list_jobs(status, limit):
\* SELECT ... WHERE status = ? ORDER BY created_at DESC LIMIT ?, the job ids
\* of the rows it returns.
stop_list_jobs(rows, status, limit) ==
    LET matching == {j \in StopJobs : rows[j].status = status}
    IN  {j \in matching : Cardinality({k \in matching : k > j}) < limit}

\* stop_processing: the running and the queued jobs are listed, cancel_job
\* is called for each job listed (it sets the flag of an existing row and
\* returns True), and the number of True results is returned.
StopProcessing ==
    /\ sp_calls = 0
    /\ sp_calls' = 1
    /\ LET running_jobs == stop_list_jobs(sp_rows, "running", list_jobs_limit)
           queued_jobs == stop_list_jobs(sp_rows, "queued", list_jobs_limit)
       IN  /\ sp_rows' =
                [j \in StopJobs |->
                   IF j \in running_jobs \cup queued_jobs
                   THEN [sp_rows[j] EXCEPT !.cancel_requested = TRUE]
                   ELSE sp_rows[j]]
           /\ sp_count' = Cardinality(running_jobs \cup queued_jobs)
    /\ UNCHANGED notStop

NextStop == StopProcessing

SpecStop == StopInit /\ [][NextStop]_vars

(* ------------------- api_server.py: LogBroadcaster --------------------- *)

\* What the LogBroadcaster on its own leaves alone.
notLog ==
    <<orchVars, now, modelVars, resVars, evVars, rqVars, lifeVars, stVars,
      reqVars, stopVars, failVars, rnVars>>

\* websocket_endpoint, lines 792-794: the connection is accepted, the loop
\* is set and a queue of log_queue_maxsize lines is subscribed.
LogSubscribe ==
    /\ lb_pc = "none"
    /\ lb_pc' = "subscribed"
    /\ lb_loop' = TRUE
    /\ lb_queue' = <<>>
    /\ UNCHANGED <<lb_lines, notLog>>

\* asyncio.Queue.put_nowait inside push (lines 754-757): QueueFull is
\* passed over, the queue stays as it is.
log_put_nowait(q, line) ==
    IF Len(q) < log_queue_maxsize THEN Append(q, line) ELSE q

\* QueueHandler.emit -> LogBroadcaster.broadcast(message) and the push it
\* schedules on the loop (the pushes run in the order of the broadcasts);
\* without a loop the message is discarded.  A line is named by its number.
LogBroadcast ==
    /\ lb_lines < MaxLines
    /\ lb_lines' = lb_lines + 1
    /\ lb_queue' = IF lb_loop /\ lb_pc = "subscribed"
                   THEN log_put_nowait(lb_queue, lb_lines + 1)
                   ELSE lb_queue
    /\ UNCHANGED <<lb_loop, lb_pc, notLog>>

\* websocket_endpoint, lines 796-798: the oldest line is taken from the
\* queue and sent.
LogGet ==
    /\ lb_pc = "subscribed"
    /\ lb_queue # <<>>
    /\ lb_queue' = Tail(lb_queue)
    /\ UNCHANGED <<lb_loop, lb_pc, lb_lines, notLog>>

\* websocket_endpoint, lines 799-804: the client is gone, the queue is
\* unsubscribed.
LogUnsubscribe ==
    /\ lb_pc = "subscribed"
    /\ lb_pc' = "closed"
    /\ lb_queue' = <<>>
    /\ UNCHANGED <<lb_loop, lb_lines, notLog>>

NextLogs ==
    \/ LogSubscribe
    \/ LogBroadcast
    \/ LogGet
    \/ LogUnsubscribe

SpecLogs == Init /\ [][NextLogs]_vars

(* ---------------------- runner.py: on_progress ------------------------- *)

\* The progress 1.0, in the unit of the progress values of this section.
Units == 2000

\* The local progress values the pipeline reports.
LocalProgress == {0, Units \div 4, Units \div 2, Units}

\* The phases the pipeline names, "" (the default of the parameter) and a
\* phase on_progress does not know.
Phases == {"analysing", "extracting", "processing", "merging", "", "other"}

\* What a Runner on its own leaves alone.
notRunner ==
    <<orchVars, now, modelVars, resVars, evVars, rqVars, lifeVars, stVars,
      reqVars, stopVars, lbVars, failVars>>

\* A Runner created for a job whose row has progress 0 or 0.5.
RunnerInit ==
    /\ OrchInit
    /\ sync_callbacks = FALSE
    /\ now = 1
    /\ ModelsIdle
    /\ ResourcesIdle
    /\ EventsIdle
    /\ rq_rows = <<>>
    /\ LifeIdle
    /\ StoreIdle
    /\ requests = [j \in Jobs |-> <<>>]
    /\ StopIdle
    /\ LogIdle
    /\ mfail = NoFail
    /\ rn_progress \in {0, Units \div 2}
    /\ rn_store = rn_progress
    /\ rn_pub = <<>>
    /\ rn_call = NoCall
    /\ rn_calls = 0

\* A weighting in which the processing phase ends at 1.0.
global_progress_Overlap(progress, phase) ==
    CASE phase = "analysing"  -> (progress * 5) \div 100
      [] phase = "extracting" -> (Units * 5) \div 100 + (progress * 10) \div 100
      [] phase = "processing" -> (Units * 15) \div 100 + (progress * 85) \div 100
      [] phase = "merging"    -> (Units * 90) \div 100 + (progress * 10) \div 100
      [] OTHER                -> progress

\* Runner.on_progress, lines 65-73: the global progress of a local progress
\* of a phase (0.05 is 5 hundredths of Units).
global_progress(progress, phase) ==
    CASE phase = "analysing"  -> (progress * 5) \div 100
      [] phase = "extracting" -> (Units * 5) \div 100 + (progress * 10) \div 100
      [] phase = "processing" -> (Units * 15) \div 100 + (progress * 75) \div 100
      [] phase = "merging"    -> (Units * 90) \div 100 + (progress * 10) \div 100
      [] OTHER                -> progress

\* Runner.on_progress(progress, phase): a call that comes less than 0.2 s
\* after the last update (`elapsed` false) with a progress below 1.0
\* returns at once; otherwise the global progress goes to the Job
\* (Job.update_progress), to the row (JobStore.update_progress) and to the
\* bus.  The first call is never early (_last_update_time starts at 0).
CallOnProgress(progress, phase, elapsed) ==
    /\ rn_calls < MaxOnProgress
    /\ rn_calls' = rn_calls + 1
    /\ IF progress < Units /\ ~elapsed /\ rn_pub # <<>>
       THEN /\ rn_call' = [progress |-> progress, phase |-> phase,
                           throttled |-> TRUE]
            /\ UNCHANGED <<rn_progress, rn_store, rn_pub>>
       ELSE LET job_progress ==
                  max_min(rn_progress, global_progress(progress, phase),
                          Units)
            IN  /\ rn_call' = [progress |-> progress, phase |-> phase,
                               throttled |-> FALSE]
                /\ rn_progress' = job_progress
                /\ rn_store' = IF rn_store < job_progress THEN job_progress
                               ELSE rn_store
                /\ rn_pub' = Append(rn_pub, job_progress)
    /\ UNCHANGED notRunner

NextRunner ==
    \E progress \in LocalProgress, phase \in Phases, elapsed \in BOOLEAN :
        CallOnProgress(progress, phase, elapsed)

SpecRunner == RunnerInit /\ [][NextRunner]_vars

(* --------------------- models.py on its own ---------------------------- *)

\* A Job of any status with any time stamps, and the clock at any value.
ModelsInit ==
    /\ OrchInit
    /\ sync_callbacks = FALSE
    /\ now \in 1 .. MaxClock
    /\ mjob \in {[NewJob EXCEPT !.status = s, !.started_at = t1,
                                !.completed_at = t2] :
                    s \in JobStatus, t1 \in 0 .. MaxClock, t2 \in 0 .. MaxClock}
    /\ mold = NoJob
    /\ mnew = "none"
    /\ mres = "none"
    /\ HarnessIdle

\* One call of Job.transition_to(new_status) on the Job.
CallTransitionTo(new_status) ==
    /\ mres = "none"
    /\ LET r == transition_to(mjob, new_status, now)
       IN  /\ mjob' = r.job
           /\ mres' = IF r.ok THEN "true" ELSE "false"
    /\ mold' = mjob
    /\ mnew' = new_status
    /\ UNCHANGED <<orchVars, now, harnessVars>>

ModelsNext == \E new_status \in JobStatus : CallTransitionTo(new_status)

SpecModels == ModelsInit /\ [][ModelsNext]_vars

\* One call of Job.fail(error_code, message) on the Job; it returns None.
CallFail(error_code, message) ==
    /\ mres = "none"
    /\ mjob' = fail(mjob, error_code, message, now)
    /\ mres' = "returned"
    /\ mold' = mjob
    /\ mfail' = [code |-> error_code, message |-> message]
    /\ UNCHANGED <<mnew, orchVars, now, resVars, evVars, rqVars, lifeVars,
                   stVars, reqVars, stopVars, lbVars, rnVars>>

FailNext ==
    \E error_code \in ErrorCode \ {"None"}, message \in {"message"} :
        CallFail(error_code, message)

SpecFail == ModelsInit /\ [][FailNext]_vars

(* ------------------------------ claims --------------------------------- *)

\* The transition table as the specification lists it.
ListedTransitions ==
    {<<"drafted", "queued">>, <<"queued", "running">>,
     <<"queued", "canceled">>, <<"running", "completed">>,
     <<"running", "failed">>, <<"running", "canceled">>,
     <<"failed", "queued">>}

\* The positions of a worker inside the `with acquire_gpu` block, that is
\* inside runner.run() or about to leave the block.
GpuScope == {"validate", "step", "pipeline", "r_cancel", "r_fail", "release"}

\* C1: every change of a job's persisted status is one of the listed valid
\* transitions, under any interleaving of the orchestrator's operations, the
\* workers and the HTTP handlers.
C1_StatusChangesAreValid ==
    [][\A j \in Jobs :
         (Exists(store[j]) /\ Exists(store'[j])
            /\ store'[j].status # store[j].status)
         => <<store[j].status, store'[j].status>> \in ListedTransitions]_vars

\* C2: once cancel_requested is true in a job's row, it is true in every
\* later state of that row.
C2_CancelRequestedPersists ==
    [][\A j \in Jobs :
         (Exists(store[j]) /\ store[j].cancel_requested /\ Exists(store'[j]))
         => store'[j].cancel_requested]_vars

\* C3: the persisted progress of a job never decreases from one state of its
\* row to the next.
C3_ProgressNeverDecreases ==
    [][\A j \in Jobs :
         (Exists(store[j]) /\ Exists(store'[j]))
         => store'[j].progress >= store[j].progress]_vars

\* C4: happy path: when a worker finishes a job for which no cancel was ever
\* requested, whose paths passed validation and whose pipeline returned true
\* (runner.run() returned True), the persisted job is completed with
\* progress 1.0 (and so is not failed).
C4_HappyPathCompletes ==
    [][\A w \in Workers :
         (wpc[w] = "sync" /\ wpc'[w] = "idle" /\ wret[w] = "true"
            /\ wpipe[w] = "true" /\ cancel_log[wjob[w]] = {})
         => /\ store'[wjob[w]].status = "completed"
            /\ store'[wjob[w]].progress = MaxProgress]_vars

\* C5: Job.transition_to(new) returns true and sets status to new exactly
\* when (status, new) is in the listed table; otherwise it returns false and
\* leaves status, started_at and completed_at as they were.
C5_TransitionTo ==
    mres # "none" =>
      /\ (mres = "true") <=> (<<mold.status, mnew>> \in ListedTransitions)
      /\ mres = "true" => mjob.status = mnew
      /\ mres = "false" =>
           /\ mjob.status = mold.status
           /\ mjob.started_at = mold.started_at
           /\ mjob.completed_at = mold.completed_at

\* C5 witness: a refused transition out of a terminal status and an accepted
\* one have both been computed (here the refused one, out of completed).
C5_Witness ==
    /\ mres = "false"
    /\ mold.status = "completed"
    /\ mnew = "queued"
    /\ mold.completed_at # NoTime

\* C6: a job whose persisted status is completed, canceled or failed does
\* not change status thereafter.
C6_TerminalStatusIsFinal ==
    [][\A j \in Jobs :
         (Exists(store[j]) /\ is_terminal(store[j].status)
            /\ Exists(store'[j]))
         => store'[j].status = store[j].status]_vars

\* C7: at most max_gpu_jobs workers are inside runner.run() (and so inside
\* the pipeline call) at any moment, each of them holds one of the GPU
\* slots taken from the semaphore, and no more than max_gpu_jobs slots are
\* ever taken.
C7_GpuSlotsBoundPipelines ==
    LET inside == {w \in Workers : wpc[w] \in GpuScope}
        taken  == max_gpu_jobs - gpu_semaphore
    IN  /\ Cardinality(inside) <= taken
        /\ taken <= max_gpu_jobs
        /\ Cardinality({w \in Workers : wpc[w] = "pipeline"}) <= max_gpu_jobs

\* C7 witness: one worker is inside the pipeline call while another one
\* waits for the GPU slot.
C7_Witness ==
    \E w1, w2 \in Workers :
        /\ wpc[w1] = "pipeline"
        /\ wpc[w2] = "acquire"
        /\ gpu_semaphore = 0

\* C8: once cancel_job has completed for a job that was queued, before
\* run_job handed it to a worker, then as long as the job's row exists no worker
\* acquires a GPU slot or invokes the pipeline for it, the worker that picks
\* it up leaves it canceled, and no job_progress event is published for it.
C8_CancelWhileQueued ==
    [][\A j \in Jobs :
         ("queued" \in cancel_log[j] /\ Exists(store'[j])) =>
           /\ \A w \in Workers : wjob'[w] = j => wpc'[w] \notin GpuScope
           /\ \A w \in Workers :
                (wjob[w] = j /\ wpc[w] # "idle" /\ wpc'[w] = "idle")
                => store'[j].status = "canceled"
           /\ \A i \in 1 .. Len(pub') :
                ~(pub'[i].job_id = j /\ pub'[i].event_type = "job_progress")
      ]_vars

\* C9: when cancel_job was called after the worker moved the job to running
\* and before the pipeline returned, then once the pipeline has returned
\* (true or false) the worker leaves the job canceled and the terminal
\* event it publishes is job_canceled.
C9_CancelWhileRunning ==
    [][\A w \in Workers :
         (wpc[w] = "sync" /\ wpc'[w] = "idle"
            /\ "running" \in cancel_log[wjob[w]]
            /\ wpipe[w] \in {"true", "false"})
         => /\ store'[wjob[w]].status = "canceled"
            /\ pub' = <<create_status_event(wjob[w], "canceled")>>]_vars

\* C10: if cancel_requested is true for the job when the Runner is about to
\* invoke the pipeline, the Runner moves the job to canceled and does not
\* invoke the pipeline.
C10_NoPipelineOnceCanceled ==
    [][\A w \in Workers :
         (wpc[w] = "step" /\ is_cancel_requested(store, wjob[w]))
         => /\ wpc'[w] # "pipeline"
            /\ store'[wjob[w]].status = "canceled"]_vars

\* C11: cancel_job on a job whose persisted status is terminal leaves every
\* field of the job's row, cancel_requested included, as it was.
C11_CancelTerminalIsNoOp ==
    [][\A j \in Jobs :
         (/\ calls'.cancel_job = calls.cancel_job + 1
          /\ pub' = <<create_status_event(j, "cancel_requested")>>
          /\ is_terminal(store[j].status))
         => store'[j] = store[j]]_vars

\* C12: when the pipeline returned false and no cancel was ever requested,
\* the worker leaves the job failed with PIPELINE_FAILED and the terminal
\* event it publishes is job_failed with the message "Pipeline processing
\* failed".
C12_PipelineFailure ==
    [][\A w \in Workers :
         (wpc[w] = "sync" /\ wpc'[w] = "idle" /\ wpipe[w] = "false"
            /\ cancel_log[wjob[w]] = {})
         => /\ store'[wjob[w]].status = "failed"
            /\ store'[wjob[w]].error_code = "PIPELINE_FAILED"
            /\ pub' = <<[create_status_event(wjob[w], "failed")
                           EXCEPT !.message = "Pipeline processing failed"]>>
      ]_vars

\* C13: when path validation refuses the job, the job becomes failed with
\* PATH_ERROR, the pipeline has not been invoked and no GPU slot is or was
\* held for the job.
C13_PathRefusal ==
    [][\A w \in Workers :
         (wpc[w] = "validate" /\ wpc'[w] = "release")
         => /\ store'[wjob[w]].status = "failed"
            /\ store'[wjob[w]].error_code = "PATH_ERROR"
            /\ wpipe[w] = "none"
            /\ "gpu" \notin job_resources[wjob[w]].held]_vars

\* C14: when the worker's GPU acquisition timed out, the worker leaves the
\* job failed with an error that identifies the timeout, and the pipeline
\* was not entered.
C14_GpuTimeout ==
    [][\A w \in Workers :
         (wpc[w] = "sync" /\ wpc'[w] = "idle" /\ wpipe[w] = "timeout")
         => /\ store'[wjob[w]].status = "failed"
            /\ store'[wjob[w]].error_message
                 = "Timeout waiting for GPU resource"]_vars

C16_CompletedAtIffTerminal ==
    \A j \in Jobs :
        Exists(store[j]) =>
          ((store[j].completed_at # NoTime) <=> is_terminal(store[j].status))

\* C17: in every persisted row in which started_at and completed_at are
\* both present, started_at <= completed_at.
C17_StartedBeforeCompleted ==
    \A j \in Jobs :
        (/\ Exists(store[j])
         /\ store[j].started_at # NoTime
         /\ store[j].completed_at # NoTime)
        => store[j].started_at <= store[j].completed_at

\* The event types the specification lists for a job that completes:
\* job_created, job_queued, job_started, one or more job_progress, and
\* job_completed last.
HappyOrder(events) ==
    /\ Len(events) >= 5
    /\ events[1].event_type = "job_created"
    /\ events[2].event_type = "job_queued"
    /\ events[3].event_type = "job_started"
    /\ \A i \in 4 .. Len(events) - 1 : events[i].event_type = "job_progress"
    /\ events[Len(events)].event_type = "job_completed"

\* C18: when the worker finishes a job that was submitted, run once, never
\* canceled and whose pipeline returned true, the status and progress events
\* published for it are job_created, job_queued, job_started, one or more
\* job_progress and job_completed, in this order and with nothing else.
C18_HappyPathEvents ==
    [][\A w \in Workers :
         (/\ wpc[w] = "sync" /\ wpc'[w] = "idle"
          /\ wret[w] = "true" /\ wpipe[w] = "true"
          /\ cancel_log[wjob[w]] = {}
          /\ calls.run_job = 1
          /\ Len(seen') < MaxSeen)
         => HappyOrder(seen')]_vars

\* C19: the progress values of the job_progress events published for a job
\* are non-decreasing in publication order.
C19_PublishedProgressMonotonic ==
    \A i, k \in 1 .. Len(seen) :
        (/\ i < k
         /\ seen[i].event_type = "job_progress"
         /\ seen[k].event_type = "job_progress"
         /\ seen[i].job_id = seen[k].job_id)
        => seen[i].progress <= seen[k].progress

Holders(resource) ==
    {<<t, i>> \in Threads \X (1 .. MaxDepth) :
        i <= Len(scopes[t]) /\ scopes[t][i].resource = resource}

\* C23: after any sequence of acquire_gpu / acquire_ffmpeg scope entries,
\* scope exits and release_all calls, the available count of each semaphore
\* never exceeds its configured maximum and the number of concurrent holders
\* of each resource never exceeds that maximum.
C23_SlotsReleasedOnce ==
    /\ gpu_semaphore <= max_gpu_jobs
    /\ ffmpeg_semaphore <= max_ffmpeg_processes
    /\ Cardinality(Holders("gpu")) <= max_gpu_jobs
    /\ Cardinality(Holders("ffmpeg")) <= max_ffmpeg_processes

\* C24: the active_jobs of get_status is exactly the set of jobs that hold
\* at least one GPU or FFmpeg slot.
C24_ActiveJobsHoldSlots ==
    get_status.active_jobs =
      {j \in Jobs :
         \/ \E w \in Workers : wjob[w] = j /\ wpc[w] \in GpuScope
         \/ \E t \in Threads : \E i \in 1 .. Len(scopes[t]) :
                scopes[t][i].job_id = j}

\* The events a subscription is owed: those published since subscribe, of
\* its scope, not published while its queue was full, and, once it has
\* ended, no later than the terminal event that ended it.
Owed(x) ==
    LET sub == subscribers[x]
    IN  {n \in 1 .. Len(published) :
           /\ n > sub.since
           /\ sub.job_id = 0 \/ published[n].job_id = sub.job_id
           /\ n \notin sub.full
           /\ sub.pc = "ended" => n <= sub.got[Len(sub.got)]}

C25_DequeueOrder ==
    \A i, k \in 1 .. Len(queue) :
        (i < k /\ rq_rows # <<>>) =>
          LET pa == IF "priority" \in DOMAIN rq_rows[queue[i]].metadata
                    THEN rq_rows[queue[i]].metadata.priority ELSE 0
              pb == IF "priority" \in DOMAIN rq_rows[queue[k]].metadata
                    THEN rq_rows[queue[k]].metadata.priority ELSE 0
          IN  \/ pa > pb
              \/ /\ pa = pb
                 /\ rq_rows[queue[i]].created_at
                      <= rq_rows[queue[k]].created_at

\* C26: a job row is deleted only when the job's status is terminal: a row
\* that is drafted, queued or running is still there after any step.
C26_DeleteOnlyTerminal ==
    [][\A j \in Jobs :
         (Exists(store[j]) /\ ~Exists(store'[j]))
         => is_terminal(store[j].status)]_vars

\* C27: when the process is started again, every row that the stopped
\* process left in status running is reconciled to failed with
\* INTERNAL_ERROR and the message "orphaned".
C27_CrashRecovery ==
    [][restarts' = restarts + 1 =>
         \A j \in Jobs :
            (Exists(store[j]) /\ store[j].status = "running")
            => /\ store'[j].status = "failed"
               /\ store'[j].error_code = "INTERNAL_ERROR"
               /\ store'[j].error_message = "orphaned"]_vars

\* C28: once shutdown has been called, run_job hands no task to the worker
\* pool, and when shutdown returns every job that a worker was executing
\* when shutdown was called is in a terminal status.
C28_Shutdown ==
    [][/\ (executor # "open" /\ calls'.run_job = calls.run_job + 1)
          => queue' = queue
       /\ (executor = "shutdown" /\ executor' = "joined")
          => \A j \in inflight :
                Exists(store[j]) => is_terminal(store[j].status)]_vars

\* C29: Store.update_progress(id, p) returns true and sets the stored
\* progress to p if and only if p is strictly greater than the stored
\* progress; otherwise it returns false and leaves the jobs table as it
\* was; in both cases no column other than progress changes.
C29_UpdateProgress ==
    st_res # "none" =>
      LET old == st_old[st_job]
      IN  /\ (st_res = "true") <=> (Exists(old) /\ st_arg > old.progress)
          /\ st_res = "true" =>
                store = [st_old EXCEPT ![st_job] =
                           [old EXCEPT !.progress = st_arg]]
          /\ st_res = "false" => store = st_old

\* C29 witness: a second call with the progress the first call stored
\* returned false, on a row whose other columns are not the defaults.
C29_Witness ==
    /\ st_calls = 2
    /\ st_res = "false"
    /\ Exists(store[st_job])
    /\ st_arg = store[st_job].progress
    /\ st_arg > 0
    /\ store[st_job].cancel_requested
    /\ store[st_job].status = "running"

\* C30: when submit(request) returns a job_id, the store holds a job with
\* that id whose status is queued, progress 0, cancel_requested false and
\* whose config is the request's config, and get_job returns it; when a
\* later cancel_job(job_id) returns, get_job reports cancel_requested true.
C30_SubmitThenCancel ==
    [][\A j \in Jobs :
         /\ (j \notin created /\ j \in created') =>
               LET job == get_job(store', j)
               IN  /\ Exists(job)
                   /\ job.status = "queued"
                   /\ job.progress = 0
                   /\ ~job.cancel_requested
                   /\ job.config = to_config(requests'[j][1])
                   /\ \A k \in DOMAIN requests'[j][1].settings :
                         job.config[k] = requests'[j][1].settings[k]
         /\ (/\ calls'.cancel_job = calls.cancel_job + 1
             /\ pub' = <<create_status_event(j, "cancel_requested")>>)
            => get_job(store', j).cancel_requested]_vars

\* C30 witness: a job submitted with settings that repeat the request's
\* own fields is queued with cancel_requested set by a later cancel_job,
\* before any worker has taken it.
C30_Witness ==
    \E j \in Jobs :
        /\ j \in created
        /\ "target_path" \in DOMAIN requests[j][1].settings
        /\ store[j].status = "queued"
        /\ store[j].cancel_requested
        /\ store[j].config = to_config(requests[j][1])
        /\ calls.cancel_job = 1
        /\ \A w \in Workers : wpc[w] = "idle"

\* C31: a call of /stop sets cancel_requested on every job that is running
\* or queued when it is called, whatever their number, and returns the
\* number of those jobs.
C31_StopCancelsAll ==
    [][sp_calls' = sp_calls + 1 =>
         LET active == {j \in StopJobs :
                          sp_rows[j].status \in {"running", "queued"}}
         IN  /\ \A j \in active : sp_rows'[j].cancel_requested
             /\ sp_count' = Cardinality(active)]_vars

\* C32: a log subscriber's queue holds at most 100 lines; a line broadcast
\* to a subscriber whose queue is full takes the place of the oldest queued
\* line, so that the queue holds the most recent lines.
C32_LogOverflowDropsOldest ==
    [][(lb_lines' = lb_lines + 1 /\ lb_loop /\ lb_pc = "subscribed") =>
         /\ Len(lb_queue') <= 100
         /\ lb_queue' = IF Len(lb_queue) < 100
                        THEN Append(lb_queue, lb_lines')
                        ELSE Append(Tail(lb_queue), lb_lines')]_vars

\* C33: when a worker that moved its job to running returns from
\* _execute_job, the job's row (if it still exists) is completed, failed or
\* canceled, and, unless another worker is on the same job, the job holds
\* no GPU slot and has no active-runner entry.
C33_WorkerEndsTerminal ==
    [][\A w \in Workers :
         (wpc[w] \in Executing /\ wpc'[w] = "idle") =>
           /\ Exists(store'[wjob[w]]) => is_terminal(store'[wjob[w]].status)
           /\ (\A v \in Workers : wjob'[v] # wjob[w]) =>
                /\ "gpu" \notin job_resources'[wjob[w]].held
                /\ wjob[w] \notin active_runners']_vars

\* C34: Job.fail(code, message) either moves the job to failed with
\* error_code = code and error_message = message, or, when failed cannot be
\* reached from the job's status (drafted, queued, completed, canceled,
\* failed), leaves every field of the job as it was.
C34_FailIsAllOrNothing ==
    mfail # NoFail =>
      IF mold.status \in {"drafted", "queued", "completed", "canceled",
                          "failed"}
      THEN mjob = mold
      ELSE /\ mjob.status = "failed"
           /\ mjob.error_code = mfail.code
           /\ mjob.error_message = mfail.message

\* The phase weights as the specification lists them: the interval of
\* global progress of each phase, in hundredths.
PhaseWeights ==
    [analysing |-> <<0, 5>>, extracting |-> <<5, 15>>,
     processing |-> <<15, 90>>, merging |-> <<90, 100>>]

C36_OneRunnerPerQueuedJob ==
    [][\A w \in Workers :
         (wpc[w] = "start" /\ wpc'[w] = "acquire")
         => store[wjob[w]].status = "queued"]_vars

\* C37: while a worker is inside the pipeline call for a job, the job's row
\* (as long as it exists) has status running.
C37_RunningWhileInPipeline ==
    \A w \in Workers :
        (wpc[w] = "pipeline" /\ Exists(store[wjob[w]]))
        => store[wjob[w]].status = "running"

\* The status a terminal event type announces.
AnnouncedStatus ==
    [job_completed |-> "completed", job_failed |-> "failed",
     job_canceled |-> "canceled"]

\* C38: when a job_canceled, job_failed or job_completed event is published
\* for a job, the job's row (as long as it exists) has the status the event
\* announces.
C38_TerminalEventsAgreeWithStore ==
    [][\A i \in 1 .. Len(pub') :
         (/\ pub'[i].event_type \in TerminalEvents
          /\ Exists(store'[pub'[i].job_id]))
         => store'[pub'[i].job_id].status
              = AnnouncedStatus[pub'[i].event_type]]_vars

\* C39: once a terminal event of job j has been published after a
\* subscription for j was registered, the subscription eventually ends,
\* also when its queue was full at that moment (the consumer keeps
\* reading).
C39_SubscriptionEventuallyEnds ==
    (\E n \in 1 .. Len(published) :
        /\ subscribers[1].pc # "none"
        /\ n > subscribers[1].since
        /\ published[n].event_type \in TerminalEvents
        /\ published[n].job_id = subscribers[1].job_id)
      ~> (subscribers[1].pc = "ended")

\* C40: a queued job for which cancel was requested eventually becomes
\* canceled under a fairly scheduled worker pool, whether or not run_job is
\* called for it afterwards.
C40_CanceledQueuedJobEnds ==
    \A j \in Jobs :
        (store[j].status = "queued" /\ store[j].cancel_requested)
          ~> (store[j].status = "canceled")

=============================================================================
